---- MODULE Spec2Model ----
(***************************************************************************)
(* A model of roget, a Wordle solver (jonhoo/roget).                       *)
(*                                                                         *)
(* Words are 5-tuples of letter codes 0..25 ('a' = 0 .. 'z' = 25), a mask  *)
(* is a 5-tuple over {"Correct", "Misplaced", "Wrong"}.  Option<T> is a    *)
(* sequence of length 0 (None) or 1 (Some).  f64 quantities are carried in *)
(* fixed point (see Scale).                                                *)
(***************************************************************************)
EXTENDS Integers, Sequences, FiniteSets, TLC

\* ---------------------------------------------------------------- bounds
\* Letters the words of the pure-function specification are drawn from.
AlphaSize == 2
\* Entries of the dictionary of the solver specification.
DictLen == 8
\* Entries of the dictionary of the cutoff specification.
BigDictLen == 96
\* Games one thread plays in a row.
MaxGames == 2
\* Calls of guess a client of the library makes in one game.
MaxClientCalls == 3
\* Leading positions in which the strings given to compute and matches vary.
StrVary == 2
\* Leading words of the dictionary the table of Precalc is built for (512 of
\* the full dictionary).
MatchLen == 4

\* ------------------------------------------------------ program constants
WordLen == 5
NumLetters == 26
\* Wordle::play allows 32 guesses, play_interactive 6.
MaxTurns == 32
InteractiveTurns == 6
MAX_MASK_ENUM == 3 * 3 * 3 * 3 * 3

Positions == 1..WordLen
Letters == 0..(NumLetters - 1)

Correctness == {"Correct", "Misplaced", "Wrong"}

None == << >>
Some(x) == << x >>

\* The one element of a set of one.
Only(S) == CHOOSE x \in S : TRUE

Min(S) == CHOOSE x \in S : \A y \in S : x <= y

\* ------------------------------------------------- Correctness::compute
\* Variant of ComputePass1 that counts every answer letter, matched or not.
RECURSIVE ComputePass1_CountAll(_, _, _, _, _)
ComputePass1_CountAll(answer, guess, c, misplaced, i) ==
    IF i > WordLen THEN [c |-> c, misplaced |-> misplaced]
    ELSE ComputePass1_CountAll(answer, guess,
                               IF answer[i] = guess[i] THEN [c EXCEPT ![i] = "Correct"]
                               ELSE c,
                               [misplaced EXCEPT ![answer[i]] = @ + 1], i + 1)

\* First loop of compute: marks the Correct positions and counts, per letter,
\* the answer letters that were not matched in place.
RECURSIVE ComputePass1(_, _, _, _, _)
ComputePass1(answer, guess, c, misplaced, i) ==
    IF i > WordLen THEN [c |-> c, misplaced |-> misplaced]
    ELSE IF answer[i] = guess[i]
         THEN ComputePass1(answer, guess, [c EXCEPT ![i] = "Correct"], misplaced, i + 1)
         ELSE ComputePass1(answer, guess, c,
                           [misplaced EXCEPT ![answer[i]] = @ + 1], i + 1)

\* Variant of ComputePass2 that never uses a count up.
RECURSIVE ComputePass2_NoDecrement(_, _, _, _)
ComputePass2_NoDecrement(guess, c, misplaced, i) ==
    IF i > WordLen THEN c
    ELSE IF c[i] = "Wrong" /\ misplaced[guess[i]] > 0
         THEN ComputePass2_NoDecrement(guess, [c EXCEPT ![i] = "Misplaced"],
                                       misplaced, i + 1)
         ELSE ComputePass2_NoDecrement(guess, c, misplaced, i + 1)

\* Variant of ComputePass2 that scans the guess from its last letter.
RECURSIVE ComputePass2_Reversed(_, _, _, _)
ComputePass2_Reversed(guess, c, misplaced, i) ==
    IF i > WordLen THEN c
    ELSE LET j == WordLen + 1 - i
         IN  IF c[j] = "Wrong" /\ misplaced[guess[j]] > 0
             THEN ComputePass2_Reversed(guess, [c EXCEPT ![j] = "Misplaced"],
                                        [misplaced EXCEPT ![guess[j]] = @ - 1], i + 1)
             ELSE ComputePass2_Reversed(guess, c, misplaced, i + 1)

\* Second loop of compute: a position still Wrong becomes Misplaced while the
\* count of its letter is positive, and uses one count up.
RECURSIVE ComputePass2(_, _, _, _)
ComputePass2(guess, c, misplaced, i) ==
    IF i > WordLen THEN c
    ELSE IF c[i] = "Wrong" /\ misplaced[guess[i]] > 0
         THEN ComputePass2(guess, [c EXCEPT ![i] = "Misplaced"],
                           [misplaced EXCEPT ![guess[i]] = @ - 1], i + 1)
         ELSE ComputePass2(guess, c, misplaced, i + 1)

compute(answer, guess) ==
    LET p1 == ComputePass1(answer, guess,
                           [i \in Positions |-> "Wrong"],
                           [l \in Letters |-> 0], 1)
    IN  ComputePass2(guess, p1.c, p1.misplaced, 1)

\* ---------------------------------------------------- Correctness::pack
\* Variant of PackDigit that gives Misplaced the digit of Wrong.
PackDigit_TwoSymbols(c) == IF c = "Correct" THEN 0 ELSE 2

PackDigit(c) == IF c = "Correct" THEN 0 ELSE IF c = "Misplaced" THEN 1 ELSE 2

\* The accumulator of pack is a u8.
U8 == 256

\* acc * 3 + digit as the closure of the fold computes it, before the result
\* is stored in the u8.
PackWide(acc, c) == acc * 3 + PackDigit(c)

\* The values PackWide takes along the fold, in order.
RECURSIVE PackAccs(_, _, _)
PackAccs(c, acc, i) ==
    IF i > WordLen THEN << >>
    ELSE << PackWide(acc, c[i]) >> \o PackAccs(c, PackWide(acc, c[i]) % U8, i + 1)

RECURSIVE PackFold(_, _, _)
PackFold(c, acc, i) ==
    IF i > WordLen THEN acc
    ELSE PackFold(c, PackWide(acc, c[i]) % U8, i + 1)

pack(c) == PackFold(c, 0, 1)

\* ------------------------------------------------ Correctness::patterns
patterns == [Positions -> Correctness]

\* ------------------------------------------- Correctness::is_misplaced
\* Variant of is_misplaced that does not mark the position it found.
is_misplaced_NoMark(letter, answer, used) ==
    [found |-> \E i \in Positions : answer[i] = letter /\ ~used[i], used |-> used]

\* `any` stops at the first unused answer position holding the letter and
\* marks it used.
is_misplaced(letter, answer, used) ==
    LET hits == {i \in Positions : answer[i] = letter /\ ~used[i]}
    IN  IF hits = {} THEN [found |-> FALSE, used |-> used]
        ELSE [found |-> TRUE, used |-> [used EXCEPT ![Min(hits)] = TRUE]]

\* ------------------------------------------------------- Guess::matches
\* First loop of matches; ok = FALSE models the early `return false`.
RECURSIVE MatchesCorrect(_, _, _, _, _)
MatchesCorrect(gword, mask, word, used, i) ==
    IF i > WordLen THEN [ok |-> TRUE, used |-> used]
    ELSE IF word[i] = gword[i]
         THEN IF mask[i] # "Correct" THEN [ok |-> FALSE, used |-> used]
              ELSE MatchesCorrect(gword, mask, word, [used EXCEPT ![i] = TRUE], i + 1)
         ELSE IF mask[i] = "Correct" THEN [ok |-> FALSE, used |-> used]
              ELSE MatchesCorrect(gword, mask, word, used, i + 1)

\* Second loop of matches.
RECURSIVE MatchesMisplaced(_, _, _, _, _)
MatchesMisplaced(gword, mask, word, used, i) ==
    IF i > WordLen THEN TRUE
    ELSE IF mask[i] = "Correct" THEN MatchesMisplaced(gword, mask, word, used, i + 1)
         ELSE LET r == is_misplaced(gword[i], word, used)
              IN  IF r.found # (mask[i] = "Misplaced") THEN FALSE
                  ELSE MatchesMisplaced(gword, mask, word, r.used, i + 1)

\* g is a Guess [word, mask]; word is the candidate answer.
matches(g, word) ==
    LET p1 == MatchesCorrect(g.word, g.mask, word, [i \in Positions |-> FALSE], 1)
    IN  IF ~p1.ok THEN FALSE
        ELSE MatchesMisplaced(g.word, g.mask, word, p1.used, 1)

\* ------------------------------------------------------------ dictionary
\* dictionary.txt is not part of the sources; these entries stand for it.
\* build.rs sorts the entries by descending count.  The first entries are
\* English words around the fixed opening "tares"; the generated tail
\* supplies the larger remaining sets the cutoff needs.
tares == << 19, 0, 17, 4, 18 >>

NamedWords ==
    << [word |-> << 2, 0, 17, 4, 18 >>,   count |-> 40],   \* cares
       [word |-> << 1, 0, 17, 4, 18 >>,   count |-> 36],   \* bares
       [word |-> tares,                   count |-> 30],   \* tares
       [word |-> << 3, 0, 17, 4, 18 >>,   count |-> 30],   \* dares
       [word |-> << 17, 0, 19, 4, 18 >>,  count |-> 24],   \* rates
       [word |-> << 18, 2, 14, 17, 4 >>,  count |-> 20],   \* score
       [word |-> << 15, 0, 17, 4, 18 >>,  count |-> 16],   \* pares
       [word |-> << 4, 15, 14, 2, 7 >>,   count |-> 12] >> \* epoch

\* A word that is in no dictionary of the model: fuzzy.
OutsideWord == << 5, 20, 25, 25, 24 >>

GenLetters == << 11, 14, 13 >>   \* l, o, n

Pow3(i) == IF i = 0 THEN 1 ELSE IF i = 1 THEN 3 ELSE IF i = 2 THEN 9
           ELSE IF i = 3 THEN 27 ELSE 81

\* The j-th word over GenLetters (j = 0..242): no letter of "tares".
GenWordA(j) == [i \in Positions |-> GenLetters[((j \div Pow3(i - 1)) % 3) + 1]]
\* The j-th word over GenLetters that ends in 's' (j = 0..80).
GenWordB(j) == [i \in Positions |->
                  IF i = WordLen THEN 18 ELSE GenLetters[((j \div Pow3(i - 1)) % 3) + 1]]

\* The k-th generated entry (k = 1, 2, ...): every fourth one ends in 's'.
GenEntry(k) ==
    [word  |-> IF k % 4 = 0 THEN GenWordB((k \div 4) - 1)
               ELSE GenWordA(k - (k \div 4) - 1),
     count |-> 11 - (k \div 12)]

DICTIONARY ==
    NamedWords \o [k \in 1..(BigDictLen - Len(NamedWords)) |-> GenEntry(k)]

\* ----------------------------------------------------------- fixed point
\* An f64 quantity x is carried as the integer floor(x * Scale).
Scale == 1024
FracBits == 10
MantBits == 14

Pow2(n) == 2 ^ n

RECURSIVE ILog2(_)
ILog2(n) == IF n < 2 THEN 0 ELSE 1 + ILog2(n \div 2)

\* Fraction bits of log2 by repeated squaring of the mantissa m in [1, 2),
\* carried with MantBits fraction bits.
RECURSIVE Log2Frac(_, _, _)
Log2Frac(m, bits, acc) ==
    IF bits = 0 THEN acc
    ELSE LET sq == (m * m) \div Pow2(MantBits)
         IN  IF sq >= Pow2(MantBits + 1)
             THEN Log2Frac(sq \div 2, bits - 1, 2 * acc + 1)
             ELSE Log2Frac(sq, bits - 1, 2 * acc)

\* f64::log2 of the integer n >= 1, times Scale.
Log2Fixed(n) ==
    LET k == ILog2(n)
    IN  k * Scale + Log2Frac((n * Pow2(MantBits)) \div Pow2(k), FracBits, 0)

\* x * log2(x) summed as the code does, for weights w out of a total r:
\* -(w/r) * log2(w/r) * r * Scale = w * (log2 r - log2 w) * Scale.
PLogP(w, r) == w * (Log2Fixed(r) - Log2Fixed(w))

\* est_steps_left(entropy), entropy and result times Scale:
\* ln(entropy * 3.870 + 3.679) = log2(..) * ln 2.
est_steps_left(entropy) ==
    LET y == (3870 * entropy) \div 1000 + 3767
    IN  ((Log2Fixed(y) - FracBits * Scale) * 710) \div Scale

\* ---------------------------------------------------------------- sigmoid
\* sigmoid(p) = L / (1 + exp(-K * (p - X0))) with p = count / sum, here in
\* units of 1 / SigmoidOne.  z is K * (p - X0) rounded down; beyond |z| = 6
\* the curve is taken as flat, and never as exactly 0.
SigmoidOne == 16
SigmoidTable == << 1, 1, 1, 1, 2, 4, 8, 12, 14, 15, 16, 16, 16 >>

sigmoid(count, sum) ==
    LET z == ((count * 30000) \div sum) * 1000 - 150
    IN  IF z > 6 THEN SigmoidOne
        ELSE IF z < -6 THEN 1
        ELSE SigmoidTable[z + 7]

\* ------------------------------------------------------- Options::build
Ranks == {"First", "ExpectedScore", "WeightedInformation",
          "InfoPlusProbability", "ExpectedInformation"}

AllOptions == [sigmoid : BOOLEAN, rank_by : Ranks, cache : BOOLEAN,
               cutoff : BOOLEAN, hard_mode : BOOLEAN]

\* The sum of the counts of the entries lo..hi, added up by halves.
RECURSIVE SumCountsIn(_, _, _)
SumCountsIn(d, lo, hi) ==
    IF lo = hi THEN d[lo].count
    ELSE SumCountsIn(d, lo, (lo + hi) \div 2)
         + SumCountsIn(d, (lo + hi) \div 2 + 1, hi)

SumCounts(d, k) == IF k = 0 THEN 0 ELSE SumCountsIn(d, 1, k)

\* The list INITIAL_SIGMOID is initialised with, for the dictionary d.
INITIAL_SIGMOID(d) ==
    [i \in 1..Len(d) |->
        [word |-> d[i].word, weight |-> sigmoid(d[i].count, SumCounts(d, Len(d))),
         idx |-> i - 1]]

\* The list INITIAL_COUNTS is initialised with, for the dictionary d.
INITIAL_COUNTS(d) ==
    [i \in 1..Len(d) |-> [word |-> d[i].word, weight |-> d[i].count, idx |-> i - 1]]

Initial(d, opts) == IF opts.sigmoid THEN INITIAL_SIGMOID(d) ELSE INITIAL_COUNTS(d)

\* The zeroed table COMPUTES is initialised with: every cell None.
EmptyCache(d) == [g \in 0..(Len(d) - 1) |-> [a \in 0..(Len(d) - 1) |-> None]]

\* ---------------------------------------------------------- get_packed
\* PackedCorrectness is declared outside the sources at hand; it is the
\* base-3 packing of the mask.
PackedCorrectness_from(c) == pack(c)

\* Variant of get_packed that passes the two words to compute in the other
\* order.
get_packed_Swapped(row, guess, answer, answer_idx) ==
    IF row[answer_idx] # None
    THEN [value |-> row[answer_idx][1], row |-> row]
    ELSE LET correctness == PackedCorrectness_from(compute(guess, answer))
         IN  [value |-> correctness,
              row |-> [row EXCEPT ![answer_idx] = Some(correctness)]]

\* Returns the value and the row as the call leaves it.
get_packed(row, guess, answer, answer_idx) ==
    IF row[answer_idx] # None
    THEN [value |-> row[answer_idx][1], row |-> row]
    ELSE LET correctness == PackedCorrectness_from(compute(answer, guess))
         IN  [value |-> correctness,
              row |-> [row EXCEPT ![answer_idx] = Some(correctness)]]

\* ---------------------------------------------------------- Solver::trim
\* Both branches of trim (retain on an owned list, filter and collect on the
\* borrowed one) keep the entries cmp accepts, in order, in an owned list.
\* keep[idx] is what the closure cmp returns for the entry of index idx.
\* Variant of trim that leaves the survivors in the opposite order.
trim_Reversed(rem, keep) ==
    LET kept == SelectSeq(rem, LAMBDA e : keep[e.idx])
    IN  [k \in 1..Len(kept) |-> kept[Len(kept) + 1 - k]]

\* Variant of trim that keeps every entry.
trim_KeepAll(rem, keep) == rem

\* Variant of trim that keeps the entries cmp rejects.
trim_Inverted(rem, keep) == SelectSeq(rem, LAMBDA e : ~keep[e.idx])

trim(rem, keep) == SelectSeq(rem, LAMBDA e : keep[e.idx])

\* One call of the closure of the cached branch of guess, for the entry k of
\* the list: s holds the packed values read so far and the cache row.
CachedRowStep(rem, k, guess_word, s) ==
    LET r == get_packed(s.row, guess_word, rem[k].word, rem[k].idx)
    IN  [values |-> [s.values EXCEPT ![rem[k].idx] = r.value], row |-> r.row]

\* The closure run over the entries lo..hi of the remaining list, in order:
\* the first half of the range, then the second from the state x the first
\* half leaves.
RECURSIVE CachedRowScan(_, _, _, _, _)
CachedRowScan(rem, lo, hi, guess_word, s) ==
    IF lo > hi THEN s
    ELSE IF lo = hi THEN CachedRowStep(rem, lo, guess_word, s)
    ELSE Only({CachedRowScan(rem, (lo + hi) \div 2 + 1, hi, guess_word, x) :
                 x \in {CachedRowScan(rem, lo, (lo + hi) \div 2, guess_word, s)}})

NoValues(d) == [a \in 0..(Len(d) - 1) |-> 0]

\* ------------------------------------------------- Solver::guess, scoring
\* The sum of the weights of the entries lo..hi, added up by halves.
RECURSIVE SumWeightsIn(_, _, _)
SumWeightsIn(rem, lo, hi) ==
    IF lo = hi THEN rem[lo].weight
    ELSE SumWeightsIn(rem, lo, (lo + hi) \div 2)
         + SumWeightsIn(rem, (lo + hi) \div 2 + 1, hi)

SumWeights(rem, k) == IF k = 0 THEN 0 ELSE SumWeightsIn(rem, 1, k)

\* remaining_entropy times remaining_p times Scale.
RECURSIVE EntropyNumIn(_, _, _, _)
EntropyNumIn(rem, lo, hi, remaining_p) ==
    IF lo = hi THEN PLogP(rem[lo].weight, remaining_p)
    ELSE EntropyNumIn(rem, lo, (lo + hi) \div 2, remaining_p)
         + EntropyNumIn(rem, (lo + hi) \div 2 + 1, hi, remaining_p)

EntropyNum(rem, k, remaining_p) ==
    IF k = 0 THEN 0 ELSE EntropyNumIn(rem, 1, k, remaining_p)

ZeroTotals == [b \in 0..(MAX_MASK_ENUM - 1) |-> 0]

\* Variant of the step that stores the candidate's weight in its bucket
\* instead of adding it.
TotalsStep_Assign(word, rem, k, t, cached) ==
    IF cached
    THEN LET r == get_packed(t.row, word, rem[k].word, rem[k].idx)
         IN  [totals |-> [t.totals EXCEPT ![r.value] = rem[k].weight],
              row |-> r.row]
    ELSE [totals |-> [t.totals EXCEPT
                         ![PackedCorrectness_from(compute(rem[k].word, word))]
                             = rem[k].weight],
          row |-> t.row]

\* One iteration of the loop over the remaining list that fills totals for
\* the guess word: t holds totals and the cache row of the word.
TotalsStep(word, rem, k, t, cached) ==
    IF cached
    THEN LET r == get_packed(t.row, word, rem[k].word, rem[k].idx)
         IN  [totals |-> [t.totals EXCEPT ![r.value] = @ + rem[k].weight],
              row |-> r.row]
    ELSE [totals |-> [t.totals EXCEPT
                         ![PackedCorrectness_from(compute(rem[k].word, word))]
                             = @ + rem[k].weight],
          row |-> t.row]

\* The iterations lo..hi of that loop, in order: the first half of the
\* range, then the second from the state x the first half leaves.
RECURSIVE TotalsLoop(_, _, _, _, _, _)
TotalsLoop(word, rem, lo, hi, t, cached) ==
    IF lo > hi THEN t
    ELSE IF lo = hi THEN TotalsStep(word, rem, lo, t, cached)
    ELSE Only({TotalsLoop(word, rem, (lo + hi) \div 2 + 1, hi, x, cached) :
                 x \in {TotalsLoop(word, rem, lo, (lo + hi) \div 2, t, cached)}})

\* `totals.filter(|t| *t != 0.0).map(..).sum()` over the buckets lo..hi,
\* times remaining_p times Scale, added up by halves.
RECURSIVE SumPLogP(_, _, _, _)
SumPLogP(totals, lo, hi, remaining_p) ==
    IF lo = hi
    THEN IF totals[lo] # 0 THEN PLogP(totals[lo], remaining_p) ELSE 0
    ELSE SumPLogP(totals, lo, (lo + hi) \div 2, remaining_p)
         + SumPLogP(totals, (lo + hi) \div 2 + 1, hi, remaining_p)

\* e_info times remaining_p times Scale.
EInfoNum(totals, remaining_p) ==
    SumPLogP(totals, 0, MAX_MASK_ENUM - 1, remaining_p)

\* The goodness of a candidate.  All candidates of one call share rank_by,
\* score, remaining_p and remaining_entropy, so goodness is carried as its
\* numerator over the common denominator (remaining_p * Scale, and its
\* square for WeightedInformation).
Goodness(rank_by, score, weight_in_remaining, e_info_num, entropy_num, remaining_p) ==
    IF rank_by = "ExpectedScore"
    THEN -(score * remaining_p * Scale + weight_in_remaining * Scale
           + (remaining_p - weight_in_remaining)
             * est_steps_left((entropy_num - e_info_num) \div remaining_p))
    ELSE IF rank_by = "WeightedInformation" THEN weight_in_remaining * e_info_num
    ELSE IF rank_by = "InfoPlusProbability"
         THEN weight_in_remaining * Scale + e_info_num
    ELSE e_info_num

InRemaining(rem, word_idx) == \E k \in 1..Len(rem) : rem[k].idx = word_idx

\* One iteration of the loop over consider, up to the goodness: t is what
\* the loop over the remaining list left.
ScoreOf(cx, e, t, in_remaining) ==
    [goodness |-> Goodness(cx.options.rank_by, cx.score,
                           IF in_remaining THEN e.weight ELSE 0,
                           EInfoNum(t.totals, cx.remaining_p),
                           cx.entropy_num, cx.remaining_p),
     in_remaining |-> in_remaining,
     row |-> t.row]

Score(cx, e, table) ==
    ScoreOf(cx, e,
            TotalsLoop(e.word, cx.remaining, 1, Len(cx.remaining),
                       [totals |-> ZeroTotals,
                        row |-> IF cx.options.cache THEN table[e.idx] ELSE << >>],
                       cx.options.cache),
            InRemaining(cx.remaining, e.idx))

\* Variant of the update of best that takes the candidate of lower goodness.
NewBest_Lower(best, cand) ==
    IF best # None
    THEN IF cand.goodness < best[1].goodness THEN Some(cand) ELSE best
    ELSE Some(cand)

\* Variant of the update of best that also takes a candidate of equal
\* goodness.
NewBest_OrEqual(best, cand) ==
    IF best # None
    THEN IF cand.goodness >= best[1].goodness THEN Some(cand) ELSE best
    ELSE Some(cand)

\* `if let Some(c) = best { if goodness > c.goodness {..} } else {..}`
NewBest(best, cand) ==
    IF best # None
    THEN IF cand.goodness > best[1].goodness THEN Some(cand) ELSE best
    ELSE Some(cand)

\* Variant of stop without the floor of 20.
stop_NoFloor(n) ==
    LET third == n \div 3
    IN  IF third < n THEN third ELSE n

stop(n) ==
    LET third == n \div 3
        floor == IF third > 20 THEN third ELSE 20
    IN  IF floor < n THEN floor ELSE n

\* Variant of consider that takes the initial list in hard mode too.
consider_AlwaysInitial(options, rem, d) ==
    IF options.sigmoid THEN INITIAL_SIGMOID(d) ELSE INITIAL_COUNTS(d)

consider(options, rem, d) ==
    IF options.hard_mode THEN rem
    ELSE IF options.sigmoid THEN INITIAL_SIGMOID(d) ELSE INITIAL_COUNTS(d)

\* `if self.options.cutoff && in_remaining { i += 1; if i >= stop { break } }`
CutoffCounts(options, in_remaining) == options.cutoff /\ in_remaining

\* The rest of the body of the loop over consider for the entry e once its
\* score c is known.  s holds best, i, the cache, the indices scored so far
\* and whether the loop has hit `break`.
ScoreStep(cx, s, e, c) ==
    LET counts == CutoffCounts(cx.options, c.in_remaining)
        i2 == IF counts THEN s.i + 1 ELSE s.i
    IN  [best |-> NewBest(s.best, [word |-> e.word, goodness |-> c.goodness,
                                   idx |-> e.idx]),
         i |-> i2,
         table |-> IF cx.options.cache THEN [s.table EXCEPT ![e.idx] = c.row]
                   ELSE s.table,
         scored |-> Append(s.scored, e.idx),
         goodnesses |-> Append(s.goodnesses, c.goodness),
         done |-> counts /\ i2 >= cx.stop]

\* The iteration k of the loop over consider, skipped after `break`.
ScoreAt(cx, k, s) ==
    IF s.done THEN s
    ELSE Only({ScoreStep(cx, s, cx.consider[k], c) :
                 c \in {Score(cx, cx.consider[k], s.table)}})

\* The iterations lo..hi of the loop over consider, in order: the first half
\* of the range, then the second from the state x the first half leaves.
RECURSIVE ScoreLoop(_, _, _, _)
ScoreLoop(cx, lo, hi, s) ==
    IF lo > hi THEN s
    ELSE IF lo = hi THEN ScoreAt(cx, lo, s)
    ELSE Only({ScoreLoop(cx, (lo + hi) \div 2 + 1, hi, x) :
                 x \in {ScoreLoop(cx, lo, (lo + hi) \div 2, s)}})

\* The whole loop over consider, from `best = None` and `i = 0`.
ScoreAll(cx, table) ==
    ScoreLoop(cx, 1, Len(cx.consider),
              [best |-> None, i |-> 0, table |-> table, scored |-> << >>, goodnesses |-> << >>,
               done |-> FALSE])

\* ---------------------------------------------------------- Solver::guess
\* A call of guess on the solver sv = [remaining, cow, entropy, options,
\* last_guess_idx] with the thread's COMPUTES cell `cache`.  The result holds
\* the solver and the cache as the call leaves them, the word returned (None
\* when the call panics) and the indices of the words scored, in order.
GuessPanic(sv, rem, cow, cache) ==
    [panic |-> TRUE, word |-> None, remaining |-> rem, cow |-> cow,
     entropy |-> sv.entropy, last_guess_idx |-> sv.last_guess_idx,
     cache |-> cache, scored |-> << >>, goodnesses |-> << >>]

\* The cached branch of the filter: scan is what get_packed returned for the
\* entries of the remaining list, and the row g as the calls left it.
FilterCached(sv, cache, reference, g, scan) ==
    [panic |-> FALSE,
     remaining |-> trim(sv.remaining,
                        [a \in DOMAIN scan.values |-> reference = scan.values[a]]),
     cow |-> "Owned",
     cache |-> Some([cache[1] EXCEPT ![g] = scan.row])]

\* Variant of the filter that leaves the list as it is.
GuessFilter_NoTrim(sv, cache, d, history) ==
    [panic |-> FALSE, remaining |-> sv.remaining, cow |-> sv.cow, cache |-> cache]

\* Variant of the filter that trims the initial list instead of the list
\* the solver holds.
GuessFilter_FromInitial(sv, cache, d, history) ==
    IF history = << >>
    THEN [panic |-> FALSE, remaining |-> sv.remaining, cow |-> sv.cow, cache |-> cache]
    ELSE [panic |-> FALSE,
          remaining |-> trim(Initial(d, sv.options),
                             [a \in 0..(Len(d) - 1) |->
                                 matches(history[Len(history)], d[a + 1].word)]),
          cow |-> "Owned", cache |-> cache]

\* `if let Some(last) = history.last() { .. }`
GuessFilter(sv, cache, d, history) ==
    IF history = << >>
    THEN [panic |-> FALSE, remaining |-> sv.remaining, cow |-> sv.cow, cache |-> cache]
    ELSE LET last == history[Len(history)]
         IN  IF sv.options.cache
             THEN IF cache = None \/ sv.last_guess_idx = None
                  THEN [panic |-> TRUE, remaining |-> sv.remaining, cow |-> sv.cow,
                        cache |-> cache]
                  ELSE FilterCached(sv, cache, PackedCorrectness_from(last.mask),
                                    sv.last_guess_idx[1],
                                    CachedRowScan(sv.remaining, 1, Len(sv.remaining),
                                                  last.word,
                                                  [values |-> NoValues(d),
                                                   row |-> cache[1][sv.last_guess_idx[1]]]))
             ELSE [panic |-> FALSE,
                   remaining |-> trim(sv.remaining,
                                      [a \in 0..(Len(d) - 1) |->
                                          matches(last, d[a + 1].word)]),
                   cow |-> "Owned", cache |-> cache]

\* `.find(|(word, _, _)| &**word == "tares")`
FindTares(rem) ==
    LET hits == {k \in 1..Len(rem) : rem[k].word = tares}
    IN  IF hits = {} THEN None ELSE Some(rem[Min(hits)].idx)

\* Variant of GuessBest that returns the best word without recording its
\* index.
GuessBest_StaleIdx(sv, rem, cache, entropy2, r) ==
    LET cache2 == IF sv.options.cache THEN Some(r.table) ELSE cache
    IN  IF r.best = None \/ r.best[1].goodness = 0
        THEN [panic |-> TRUE, word |-> None, remaining |-> rem, cow |-> "Owned",
              entropy |-> entropy2, last_guess_idx |-> sv.last_guess_idx,
              cache |-> cache2, scored |-> r.scored,
              goodnesses |-> r.goodnesses]
        ELSE [panic |-> FALSE, word |-> Some(r.best[1].word), remaining |-> rem,
              cow |-> "Owned", entropy |-> entropy2,
              last_guess_idx |-> sv.last_guess_idx,
              cache |-> cache2, scored |-> r.scored,
              goodnesses |-> r.goodnesses]

\* The end of guess: r is what the loop over consider left.
\* `best.unwrap()` and `assert_ne!(best.goodness, 0.0)` panic.
GuessBest(sv, rem, cache, entropy2, r) ==
    LET cache2 == IF sv.options.cache THEN Some(r.table) ELSE cache
    IN  IF r.best = None \/ r.best[1].goodness = 0
        THEN [panic |-> TRUE, word |-> None, remaining |-> rem, cow |-> "Owned",
              entropy |-> entropy2, last_guess_idx |-> sv.last_guess_idx,
              cache |-> cache2, scored |-> r.scored,
              goodnesses |-> r.goodnesses]
        ELSE [panic |-> FALSE, word |-> Some(r.best[1].word), remaining |-> rem,
              cow |-> "Owned", entropy |-> entropy2,
              last_guess_idx |-> Some(r.best[1].idx),
              cache |-> cache2, scored |-> r.scored,
              goodnesses |-> r.goodnesses]

\* The scoring part of guess, from remaining_p and remaining_entropy on.
GuessRank(sv, rem, cache, d, history, remaining_p, entropy_num) ==
    GuessBest(sv, rem, cache, Append(sv.entropy, entropy_num \div remaining_p),
              ScoreAll([remaining |-> rem, options |-> sv.options,
                        score |-> Len(history), remaining_p |-> remaining_p,
                        entropy_num |-> entropy_num, stop |-> stop(Len(rem)),
                        consider |-> consider(sv.options, rem, d)],
                       IF sv.options.cache THEN cache[1] ELSE << >>))

\* The part of guess after the early returns.
GuessScore(sv, rem, cache, d, history) ==
    GuessRank(sv, rem, cache, d, history, SumWeights(rem, Len(rem)),
              EntropyNum(rem, Len(rem), SumWeights(rem, Len(rem))))

\* Variant of the end of guess without the branch for the empty history.
GuessReturn_NoOpening(sv, d, history, f, rem) ==
        IF f.panic THEN GuessPanic(sv, rem, f.cow, f.cache)
        ELSE IF sv.options.rank_by = "First" \/ Len(rem) = 1
        THEN IF rem = << >> THEN GuessPanic(sv, rem, f.cow, f.cache)
             ELSE [panic |-> FALSE, word |-> Some(rem[1].word), remaining |-> rem,
                   cow |-> f.cow, entropy |-> sv.entropy,
                   last_guess_idx |-> Some(rem[1].idx), cache |-> f.cache,
                   scored |-> << >>, goodnesses |-> << >>]
        ELSE IF rem = << >> THEN GuessPanic(sv, rem, f.cow, f.cache)
        ELSE GuessScore(sv, rem, f.cache, d, history)

\* Variant of the end of guess that takes the early return for the rank
\* First only, not for a single candidate.
GuessReturn_NoSingle(sv, d, history, f, rem) ==
        IF f.panic THEN GuessPanic(sv, rem, f.cow, f.cache)
        ELSE IF history = << >>
        THEN IF FindTares(rem) = None THEN GuessPanic(sv, rem, f.cow, f.cache)
             ELSE [panic |-> FALSE, word |-> Some(tares), remaining |-> rem,
                   cow |-> f.cow, entropy |-> sv.entropy,
                   last_guess_idx |-> FindTares(rem), cache |-> f.cache,
                   scored |-> << >>, goodnesses |-> << >>]
        ELSE IF sv.options.rank_by = "First"
        THEN IF rem = << >> THEN GuessPanic(sv, rem, f.cow, f.cache)
             ELSE [panic |-> FALSE, word |-> Some(rem[1].word), remaining |-> rem,
                   cow |-> f.cow, entropy |-> sv.entropy,
                   last_guess_idx |-> Some(rem[1].idx), cache |-> f.cache,
                   scored |-> << >>, goodnesses |-> << >>]
        ELSE IF rem = << >> THEN GuessPanic(sv, rem, f.cow, f.cache)
        ELSE GuessScore(sv, rem, f.cache, d, history)

\* Variant of the end of guess that answers "tares" when no candidate is
\* left instead of panicking.
GuessReturn_EmptyFallback(sv, d, history, f, rem) ==
        IF f.panic THEN GuessPanic(sv, rem, f.cow, f.cache)
        ELSE IF history = << >> \/ rem = << >>
        THEN [panic |-> FALSE, word |-> Some(tares), remaining |-> rem,
              cow |-> f.cow, entropy |-> sv.entropy,
              last_guess_idx |-> FindTares(Initial(d, sv.options)),
              cache |-> f.cache, scored |-> << >>, goodnesses |-> << >>]
        ELSE IF sv.options.rank_by = "First" \/ Len(rem) = 1
        THEN [panic |-> FALSE, word |-> Some(rem[1].word), remaining |-> rem,
              cow |-> f.cow, entropy |-> sv.entropy,
              last_guess_idx |-> Some(rem[1].idx), cache |-> f.cache,
              scored |-> << >>, goodnesses |-> << >>]
        ELSE GuessScore(sv, rem, f.cache, d, history)

\* guess after its filtering step left f.
GuessReturn(sv, d, history, f, rem) ==
        IF f.panic THEN GuessPanic(sv, rem, f.cow, f.cache)
        ELSE IF history = << >>
        THEN IF FindTares(rem) = None THEN GuessPanic(sv, rem, f.cow, f.cache)
             ELSE [panic |-> FALSE, word |-> Some(tares), remaining |-> rem,
                   cow |-> f.cow, entropy |-> sv.entropy,
                   last_guess_idx |-> FindTares(rem), cache |-> f.cache,
                   scored |-> << >>, goodnesses |-> << >>]
        ELSE IF sv.options.rank_by = "First" \/ Len(rem) = 1
        THEN IF rem = << >> THEN GuessPanic(sv, rem, f.cow, f.cache)
             ELSE [panic |-> FALSE, word |-> Some(rem[1].word), remaining |-> rem,
                   cow |-> f.cow, entropy |-> sv.entropy,
                   last_guess_idx |-> Some(rem[1].idx), cache |-> f.cache,
                   scored |-> << >>, goodnesses |-> << >>]
        ELSE IF rem = << >> THEN GuessPanic(sv, rem, f.cow, f.cache)
        ELSE GuessScore(sv, rem, f.cache, d, history)

GuessFiltered(sv, d, history, f) == GuessReturn(sv, d, history, f, f.remaining)

guess(sv, cache, d, history) ==
    GuessFiltered(sv, d, history, GuessFilter(sv, cache, d, history))

\* -------------------------------------------------------------- the state
VARIABLES
    t_answer, t_guess, t_mask, t_accept,   \* the pure functions under test
    t_result,         \* what the call under test returned, None before it
    guesser,          \* the closure a test of tests::game plays with, or None
    MATCH,            \* the static table of precalc.rs: None or Some(table)
    lookups,          \* the hits of the last call of Precalc::guess in MATCH
    dict,             \* DICTIONARY of this process, fixed at start
    statics,          \* the INITIAL_* list the process uses, None before build
    options,          \* Solver.options
    remaining,        \* Solver.remaining (the list the Cow holds)
    cow,              \* "Borrowed" or "Owned"
    entropy,          \* Solver.entropy
    last_guess_idx,   \* Solver.last_guess_idx
    COMPUTES,         \* the thread-local cache: None or Some(table)
    history,          \* the history the harness passes to guess
    answer,           \* the answer of Wordle::play, None without one
    mode,             \* which harness drives the solver
    outcome,          \* how the game ended, << "pending" >> while it runs
    last_word,        \* the word guess last returned, None before
    scored,           \* the indices the last call of guess scored
    goodnesses,       \* the goodness of each of them, in the same order
    calls,            \* calls of guess on this solver so far
    games,            \* games started on this thread
    twin              \* a second Solver of the process, None without one

tvars == << t_answer, t_guess, t_mask, t_accept, t_result, guesser, MATCH,
           lookups >>
solver == << options, remaining, cow, entropy, last_guess_idx >>
svars == << dict, statics, options, remaining, cow, entropy, last_guess_idx, COMPUTES,
            history, answer, mode, outcome, last_word, scored, goodnesses,
            calls, games, twin >>
vars == << t_answer, t_guess, t_mask, t_accept, t_result, guesser, MATCH,
          lookups, dict,
           statics, options, remaining, cow,
           entropy, last_guess_idx, COMPUTES, history, answer, mode, outcome,
           last_word, scored, goodnesses, calls, games, twin >>

Sv == [remaining |-> remaining, cow |-> cow, entropy |-> entropy,
       options |-> options, last_guess_idx |-> last_guess_idx]

Pending == << "pending" >>
AllCorrect == [i \in Positions |-> "Correct"]
AllMisplaced == [i \in Positions |-> "Misplaced"]

DictWords(d) == {d[i].word : i \in 1..Len(d)}

\* ------------------------------------------------------- Options::build
\* The solver build returns, and the thread's cache after it.
BuildSolver ==
    /\ remaining' = Initial(dict', options')
    /\ cow' = "Borrowed"
    /\ entropy' = << >>
    /\ last_guess_idx' = None

\* A build that initialises the thread's table anew each time.
BuildCache_Reset(cache, d, opts) ==
    IF opts.cache THEN Some(EmptyCache(d)) ELSE cache

\* COMPUTES.with(|c| c.get_or_init(..)): the table is created once a thread.
BuildCache(cache, d, opts) ==
    IF opts.cache /\ cache = None THEN Some(EmptyCache(d)) ELSE cache

\* The answers a game is played for: answers.txt is not checked against the
\* dictionary.
Answers(d) == DictWords(d) \cup {OutsideWord}

\* The lines the user of the interactive front end types in reply to a guess:
\* the feedback of every dictionary word, and one more.
MaskInputs(d, word) == {compute(d[i].word, word) : i \in 1..Len(d)} \cup {AllMisplaced}

TestIdle ==
    /\ t_answer = tares /\ t_guess = tares /\ t_mask = None /\ t_accept = None
    /\ t_result = None
    /\ guesser = None
    /\ MATCH = None
    /\ lookups = {}

\* The solver a process built from `opts` over the dictionary d, and the
\* game it is about to play.
InitSolver(d, opts, m, ans) ==
    /\ TestIdle
    /\ dict = d
    /\ statics = Some(Initial(d, opts))
    /\ options = opts
    /\ remaining = Initial(d, opts)
    /\ cow = "Borrowed"
    /\ entropy = << >>
    /\ last_guess_idx = None
    /\ COMPUTES = BuildCache(None, d, opts)
    /\ history = << >>
    /\ answer = ans
    /\ mode = m
    /\ outcome = Pending
    /\ last_word = None
    /\ scored = << >>
    /\ goodnesses = << >>
    /\ calls = 0
    /\ games = 1

\* A process with that one solver only.
InitProcess(d, opts, m, ans) == InitSolver(d, opts, m, ans) /\ twin = None

Init ==
    \E opts \in AllOptions :
        \/ \E w \in Answers(SubSeq(DICTIONARY, 1, DictLen)) :
              InitProcess(SubSeq(DICTIONARY, 1, DictLen), opts, "play", Some(w))
        \/ InitProcess(SubSeq(DICTIONARY, 1, DictLen), opts, "interactive", None)

\* The list a Cow holds: the shared list while it borrows, its own after.
Held(c, rem) == IF c = "Borrowed" /\ statics # None THEN statics[1] ELSE rem

\* Variant of SharedAfter where the filter of a borrowing Solver retains in
\* place, through the borrow.
SharedAfter_Retain(c, shared, r) ==
    IF c = "Borrowed" /\ r.cow = "Owned" /\ shared # None
    THEN Some(r.remaining) ELSE shared

\* The shared list after a call of guess on a Solver whose Cow was c and
\* that the call left as r: trim retains in place only on an owned list, and
\* reads a borrowed one to collect a list of its own.
SharedAfter(c, shared, r) == shared

\* The solver and the cache as a call of guess leaves them.
AfterGuess(r) ==
    /\ statics' = SharedAfter(cow, statics, r)
    /\ remaining' = r.remaining
    /\ cow' = r.cow
    /\ entropy' = r.entropy
    /\ last_guess_idx' = r.last_guess_idx
    /\ COMPUTES' = r.cache
    /\ scored' = r.scored
    /\ goodnesses' = r.goodnesses
    /\ last_word' = r.word
    /\ calls' = calls + 1

\* ---------------------------------------------------------- Wordle::play
\* One iteration of the loop of play; the last one also returns None.
\* The body of the loop once guess returned r (or panicked).
PlayIteration_ZeroBased(i, r) ==
    /\ AfterGuess(r)
    /\ IF r.panic
       THEN outcome' = << "panic" >> /\ history' = history
       ELSE IF r.word[1] = answer[1]
       THEN outcome' = << "Some", i - 1 >> /\ history' = history
       ELSE IF r.word[1] \notin DictWords(dict)
       THEN outcome' = << "panic" >> /\ history' = history
       ELSE /\ history' = Append(history,
                                 [word |-> r.word[1],
                                  mask |-> compute(answer[1], r.word[1])])
            /\ outcome' = IF i = MaxTurns THEN << "None" >> ELSE Pending

PlayIteration(i, r) ==
    /\ AfterGuess(r)
    /\ IF r.panic
       THEN outcome' = << "panic" >> /\ history' = history
       ELSE IF r.word[1] = answer[1]
       THEN outcome' = << "Some", i >> /\ history' = history
       ELSE IF r.word[1] \notin DictWords(dict)
       THEN outcome' = << "panic" >> /\ history' = history
       ELSE /\ history' = Append(history,
                                 [word |-> r.word[1],
                                  mask |-> compute(answer[1], r.word[1])])
            /\ outcome' = IF i = MaxTurns THEN << "None" >> ELSE Pending

PlayTurn ==
    /\ mode = "play"
    /\ outcome = Pending
    /\ PlayIteration(Len(history) + 1, guess(Sv, COMPUTES, dict, history))
    /\ UNCHANGED << tvars, dict, options, answer, mode, games, twin >>

\* The next iteration of the loop of play() in main.rs: a new solver from the
\* same options, on the same thread, for the next answer.
NewGame ==
    /\ mode = "play"
    /\ outcome[1] \in {"Some", "None"}
    /\ games < MaxGames
    /\ UNCHANGED << tvars, dict, statics, options, mode, twin >>
    /\ BuildSolver
    /\ COMPUTES' = BuildCache(COMPUTES, dict, options)
    /\ \E w \in Answers(dict) : answer' = Some(w)
    /\ history' = << >>
    /\ outcome' = Pending
    /\ last_word' = None
    /\ scored' = << >>
    /\ goodnesses' = << >>
    /\ calls' = 0
    /\ games' = games + 1

\* ------------------------------------------------------ play_interactive
\* One iteration of the loop of play_interactive; m is the mask
\* ask_for_correctness ends up returning.
InteractiveIteration(r) ==
    /\ AfterGuess(r)
    /\ IF r.panic
       THEN outcome' = << "panic" >> /\ history' = history
       ELSE \E m \in MaskInputs(dict, r.word[1]) :
               IF m = AllCorrect
               THEN outcome' = << "answered" >> /\ history' = history
               ELSE /\ history' = Append(history, [word |-> r.word[1], mask |-> m])
                    /\ outcome' = IF Len(history) + 1 = InteractiveTurns
                                  THEN << "gameover" >> ELSE Pending

InteractiveTurn ==
    /\ mode = "interactive"
    /\ outcome = Pending
    /\ InteractiveIteration(guess(Sv, COMPUTES, dict, history))
    /\ UNCHANGED << tvars, dict, options, answer, mode, games, twin >>

Next == PlayTurn \/ NewGame \/ InteractiveTurn

Spec == Init /\ [][Next]_vars

\* ------------------------------------ the interactive front end, by lines
\* A line of standard input is the sequence of what the user typed, one
\* string a character; InvalidByte stands for bytes that are not UTF-8.
InvalidByte == "<ff>"
EAcute == "e'"
NewLine == "\n"

is_whitespace(ch) == ch \in {" ", NewLine}

to_ascii_uppercase(ch) ==
    IF ch = "c" THEN "C" ELSE IF ch = "m" THEN "M" ELSE IF ch = "w" THEN "W"
    ELSE IF ch = "x" THEN "X" ELSE ch

\* The bytes of a character in a String.
len_utf8(ch) == IF ch = EAcute THEN 2 ELSE 1

\* String::len: the bytes of the string.
RECURSIVE StrLen(_)
StrLen(str) == IF str = << >> THEN 0 ELSE len_utf8(Head(str)) + StrLen(Tail(str))

RECURSIVE TrimStart(_)
TrimStart(str) ==
    IF str # << >> /\ is_whitespace(Head(str)) THEN TrimStart(Tail(str)) ELSE str

RECURSIVE TrimEnd(_)
TrimEnd(str) ==
    IF str # << >> /\ is_whitespace(str[Len(str)])
    THEN TrimEnd(SubSeq(str, 1, Len(str) - 1)) ELSE str

\* `.trim().chars().filter(|v| !v.is_whitespace()).map(to_ascii_uppercase)`
Cleaned(line) ==
    LET kept == SelectSeq(TrimEnd(TrimStart(line)), LAMBDA ch : ~is_whitespace(ch))
    IN  [i \in 1..Len(kept) |-> to_ascii_uppercase(kept[i])]

ParseColor(ch) ==
    IF ch = "C" THEN "Correct" ELSE IF ch = "M" THEN "Misplaced" ELSE "Wrong"

AskOk(mask) == [kind |-> "Ok", mask |-> Some(mask), message |-> ""]
AskErr(msg) == [kind |-> "Err", mask |-> None, message |-> msg]
AskPanic == [kind |-> "panic", mask |-> None, message |-> ""]

\* ask_for_correctness for the line read_line reads.  read_line fails on
\* bytes that are not UTF-8 and the result is unwrapped.
ask_for_correctness(line) ==
    IF \E i \in 1..Len(line) : line[i] = InvalidByte THEN AskPanic
    ELSE IF StrLen(Cleaned(line)) # WordLen
    THEN AskErr("You did not provide exactly 5 colors.")
    ELSE IF \E i \in 1..Len(Cleaned(line)) : Cleaned(line)[i] \notin {"C", "M", "W"}
    THEN AskErr("The guess color wasn't recognized: use C/M/W")
    ELSE IF Len(Cleaned(line)) # WordLen THEN AskPanic
    ELSE AskOk([i \in Positions |-> ParseColor(Cleaned(line)[i])])

\* The feedback the user has in mind: that of a few answers, and one that no
\* answer gives.
FrontMasks(d, word) ==
    {compute(d[i].word, word) : i \in {1, 4, 5}} \cup {AllMisplaced}

ColorChar(c) == IF c = "Correct" THEN "C" ELSE IF c = "Misplaced" THEN "M" ELSE "W"
LowerChar(c) == IF c = "Correct" THEN "c" ELSE IF c = "Misplaced" THEN "m" ELSE "w"

\* Ways of typing the mask m.
MaskLines(m) ==
    {<< ColorChar(m[1]), ColorChar(m[2]), ColorChar(m[3]), ColorChar(m[4]),
        ColorChar(m[5]), NewLine >>,
     << " ", LowerChar(m[1]), LowerChar(m[2]), " ", ColorChar(m[3]),
        LowerChar(m[4]), LowerChar(m[5]), " ", NewLine >>}

\* Lines that are no mask.
OtherLines ==
    {<< >>,
     << NewLine >>,
     << "C", "M", "W", "W", NewLine >>,
     << "C", "M", "W", "W", "C", "M", NewLine >>,
     << "C", "M", "x", "W", "W", NewLine >>,
     << EAcute, "C", "M", "W", NewLine >>,
     << EAcute, "C", "M", "W", "W", NewLine >>,
     << "C", InvalidByte, "W", "W", "W", NewLine >>}

Lines(d, word) ==
    UNION {MaskLines(m) : m \in FrontMasks(d, word)} \cup OtherLines

FrontOptions ==
    {o \in AllOptions :
        /\ o.cache
        /\ o.cutoff
        /\ ~o.sigmoid
        /\ o.rank_by \in {"First", "ExpectedScore"}}

InitFront ==
    \E opts \in FrontOptions :
        InitProcess(SubSeq(DICTIONARY, 1, DictLen), opts, "front", None)

\* `let guess = guesser.guess(&history);` once guess returned r (or panicked).
FrontGuessed(r) ==
    /\ AfterGuess(r)
    /\ outcome' = IF r.panic THEN << "panic" >> ELSE Pending

FrontGuess ==
    /\ mode = "front"
    /\ outcome = Pending
    /\ calls = Len(history)
    /\ FrontGuessed(guess(Sv, COMPUTES, dict, history))
    /\ t_result' = None
    /\ UNCHANGED << t_answer, t_guess, t_mask, t_accept, guesser, MATCH, lookups, dict, options,
                    answer, mode, games, twin, history >>

\* One turn of the inner loop of play_interactive, and what follows it when
\* ask_for_correctness returned a mask.
FrontAsked(line, a) ==
    /\ t_result' = Some([line |-> line, asked |-> a, before |-> Len(history)])
    /\ IF a.kind = "panic"
       THEN outcome' = << "panic" >> /\ history' = history
       ELSE IF a.kind = "Err"
       THEN outcome' = outcome /\ history' = history
       ELSE IF a.mask[1] = AllCorrect
       THEN outcome' = << "answered" >> /\ history' = history
       ELSE /\ history' = Append(history,
                                 [word |-> last_word[1], mask |-> a.mask[1]])
            /\ outcome' = IF Len(history) + 1 = InteractiveTurns
                          THEN << "gameover" >> ELSE Pending

FrontAsk ==
    /\ mode = "front"
    /\ outcome = Pending
    /\ calls = Len(history) + 1
    /\ \E line \in Lines(dict, last_word[1]) :
          FrontAsked(line, ask_for_correctness(line))
    /\ UNCHANGED << t_answer, t_guess, t_mask, t_accept, guesser, MATCH, lookups, dict, statics,
                    solver, COMPUTES, answer, mode, last_word, scored,
                    goodnesses, calls, games, twin >>

NextFront == FrontGuess \/ FrontAsk

SpecFront == InitFront /\ [][NextFront]_vars

\* --------------------------------------------- hard-mode games of play
\* Games of Wordle::play for answers of the dictionary, with a hard-mode
\* Solver.  play is a loop of the running program: an iteration that can run
\* does run.
InitHard ==
    \E opts \in {o \in AllOptions : o.hard_mode} :
        \E w \in DictWords(SubSeq(DICTIONARY, 1, DictLen)) :
            InitProcess(SubSeq(DICTIONARY, 1, DictLen), opts, "play", Some(w))

\* The next game is for an answer of the dictionary too.
NewHardGame == NewGame /\ answer'[1] \in DictWords(dict)

NextHard == PlayTurn \/ NewHardGame

\* An iteration of play can run exactly while the game is pending, and the
\* steps that count a call of guess are the iterations.
Running == mode = "play" /\ outcome = Pending
CountsCall == calls' = calls + 1

\* Weak fairness of PlayTurn, WF_vars(PlayTurn), with ENABLED PlayTurn
\* written as Running and the steps of PlayTurn as the steps that count a call.
PlayFair == []<>(~Running) \/ []<><< CountsCall >>_vars

\* main goes on to the next game, and play to its next iteration.
SpecHard ==
    InitHard /\ [][NextHard]_vars /\ PlayFair /\ WF_vars(NewHardGame)

\* ------------------------------------- play over the whole dictionary
\* Games of Wordle::play with the cutoff, over all of DICTIONARY, for answers
\* of both families of its words.
CutoffOptions ==
    {o \in AllOptions :
        /\ o.cutoff
        /\ ~o.sigmoid
        /\ o.rank_by \in {"ExpectedScore", "ExpectedInformation"}}

CutoffAnswers == {DICTIONARY[i].word : i \in {12, 13, 36, 49, 60, 85}}

InitCutoff ==
    \E opts \in CutoffOptions : \E w \in CutoffAnswers :
        InitProcess(DICTIONARY, opts, "play", Some(w))

NextCutoff == PlayTurn

SpecCutoff == InitCutoff /\ [][NextCutoff]_vars

\* ------------------------------------------ a client with two Solvers
\* A client of the library that drives Solver::guess through the Guesser
\* trait itself: it asks its Solver for a word each turn, plays that word or
\* a dictionary word of its own, and passes the history of what it played.
\* It keeps a second Solver, the twin, which it calls with the same
\* histories: one built from the same options but without the cache, or one
\* built from the same options on a thread of its own.
ClientOptions ==
    {o \in AllOptions :
        /\ o.cache
        /\ o.cutoff
        /\ ~o.sigmoid
        /\ o.rank_by \in {"First", "ExpectedScore", "ExpectedInformation"}}

ClientAnswers(d) == {d[1].word, d[4].word, d[5].word}

\* The words the client may play when its Solver suggests `word`.
ClientPlays(d, word) == {word, d[2].word}

TwinSv == [remaining |-> Held(twin[1].cow, twin[1].remaining),
           cow |-> twin[1].cow,
           entropy |-> twin[1].entropy, options |-> twin[1].options,
           last_guess_idx |-> twin[1].last_guess_idx]

\* The twin as build returns it, on a thread whose cache is `cache`.
BuildTwin(d, topts, cache) ==
    Some([remaining |-> Initial(d, topts), cow |-> "Borrowed",
          entropy |-> << >>, options |-> topts, last_guess_idx |-> None,
          cache |-> BuildCache(cache, d, topts), word |-> None,
          panic |-> FALSE, calls |-> 0])

InitClient ==
    \E opts \in ClientOptions :
        \E topts \in {opts, [opts EXCEPT !.cache = FALSE]} :
            \E w \in ClientAnswers(SubSeq(DICTIONARY, 1, DictLen)) :
                /\ InitSolver(SubSeq(DICTIONARY, 1, DictLen), opts, "client", Some(w))
                /\ twin = BuildTwin(SubSeq(DICTIONARY, 1, DictLen), topts, None)

\* The client calls guess on its Solver.
ClientCall ==
    /\ mode = "client"
    /\ outcome = Pending
    /\ twin[1].calls = calls
    /\ Len(history) = calls
    /\ calls < MaxClientCalls
    /\ AfterGuess(guess([Sv EXCEPT !.remaining = Held(cow, remaining)],
                        COMPUTES, dict, history))
    /\ UNCHANGED << tvars, dict, options, answer, mode, games, twin, history,
                    outcome >>

\* The twin as a call of guess that returned (or panicked with) t leaves it.
TwinCalled(t) ==
    /\ statics' = SharedAfter(twin[1].cow, statics, t)
    /\ twin' = Some([remaining |-> t.remaining, cow |-> t.cow,
                     entropy |-> t.entropy, options |-> twin[1].options,
                     last_guess_idx |-> t.last_guess_idx, cache |-> t.cache,
                     word |-> t.word, panic |-> t.panic,
                     calls |-> twin[1].calls + 1])

\* The client calls guess on the twin, with the same history.
TwinCall ==
    /\ mode = "client"
    /\ outcome = Pending
    /\ twin[1].calls < calls
    /\ TwinCalled(guess(TwinSv, twin[1].cache, dict, history))
    /\ UNCHANGED << tvars, dict, solver, COMPUTES, history, answer, mode,
                    outcome, last_word, scored, goodnesses, calls, games >>

\* The client plays a word and records it with its feedback.
ClientPlay ==
    /\ mode = "client"
    /\ outcome = Pending
    /\ twin[1].calls = calls
    /\ Len(history) < calls
    /\ IF last_word = None \/ twin[1].word = None
       THEN outcome' = << "panic" >> /\ history' = history
       ELSE \E w \in ClientPlays(dict, last_word[1]) :
               IF w = answer[1]
               THEN outcome' = << "Some", calls >> /\ history' = history
               ELSE /\ history' = Append(history,
                                         [word |-> w,
                                          mask |-> compute(answer[1], w)])
                    /\ outcome' = IF calls = MaxClientCalls
                                  THEN << "None" >> ELSE Pending
    /\ UNCHANGED << tvars, dict, statics, solver, COMPUTES, answer, mode, last_word,
                    scored, goodnesses, calls, games, twin >>

\* The client starts its next game: a new Solver on the same thread, and a
\* new twin, on a new thread if it uses the cache.
ClientNewGame ==
    /\ mode = "client"
    /\ outcome[1] \in {"Some", "None"}
    /\ games < MaxGames
    /\ UNCHANGED << tvars, dict, statics, options, mode >>
    /\ BuildSolver
    /\ COMPUTES' = BuildCache(COMPUTES, dict, options)
    /\ twin' = BuildTwin(dict, twin[1].options, None)
    /\ \E w \in ClientAnswers(dict) : answer' = Some(w)
    /\ history' = << >>
    /\ outcome' = Pending
    /\ last_word' = None
    /\ scored' = << >>
    /\ goodnesses' = << >>
    /\ calls' = 0
    /\ games' = games + 1

NextClient == ClientCall \/ TwinCall \/ ClientPlay \/ ClientNewGame

SpecClient == InitClient /\ [][NextClient]_vars

\* ------------------------------------------ Wordle::play in tests::game
\* The guessers of tests::game: a closure that returns one word when the
\* history has a given length and another word otherwise.
Guessers(d) ==
    [when : 0..MaxTurns, right : {d[1].word}, wrong : {d[3].word, OutsideWord}]

\* guesser!(|history| { if history.len() == when { right } else { wrong } })
GuesserWord(g, h) == IF Len(h) = g.when THEN g.right ELSE g.wrong

\* The closure's answer in the shape of a call of guess: it has no solver
\* and no cache to change.
ClosureGuess(g, h) ==
    [panic |-> FALSE, word |-> Some(GuesserWord(g, h)),
     remaining |-> remaining, cow |-> cow, entropy |-> entropy,
     last_guess_idx |-> last_guess_idx, cache |-> COMPUTES,
     scored |-> << >>, goodnesses |-> << >>]

\* Like answers.txt, the answer given to play is not checked against the
\* dictionary.
GameAnswers(d) == {d[1].word, d[3].word, d[5].word, OutsideWord}

InitGame ==
    /\ t_answer = tares /\ t_guess = tares /\ t_mask = None /\ t_accept = None
    /\ t_result = None
    /\ guesser \in {Some(g) : g \in Guessers(SubSeq(DICTIONARY, 1, DictLen))}
    /\ MATCH = None
    /\ lookups = {}
    /\ dict = SubSeq(DICTIONARY, 1, DictLen)
    /\ statics = None
    /\ options = [sigmoid |-> TRUE, rank_by |-> "ExpectedScore", cache |-> TRUE,
                  cutoff |-> TRUE, hard_mode |-> TRUE]
    /\ remaining = << >>
    /\ cow = "Borrowed"
    /\ entropy = << >>
    /\ last_guess_idx = None
    /\ COMPUTES = None
    /\ history = << >>
    /\ answer \in {Some(w) : w \in GameAnswers(SubSeq(DICTIONARY, 1, DictLen))}
    /\ mode = "game"
    /\ outcome = Pending
    /\ last_word = None
    /\ scored = << >>
    /\ goodnesses = << >>
    /\ calls = 0
    /\ games = 1
    /\ twin = None

GameTurn ==
    /\ mode = "game"
    /\ outcome = Pending
    /\ PlayIteration(Len(history) + 1, ClosureGuess(guesser[1], history))
    /\ UNCHANGED << tvars, dict, options, answer, mode, games, twin >>

NextGame == GameTurn

SpecGame == InitGame /\ [][NextGame]_vars

\* ----------------------------------------------------- Precalc::guess
\* `&INITIAL.get().unwrap()[..512]`: the table is built for the first
\* MatchLen words.

\* `<` of str: the order of the bytes.
StrLt(a, b) ==
    \E i \in Positions : a[i] < b[i] /\ \A j \in 1..(i - 1) : a[j] = b[j]

\* The item of index k of Correctness::patterns(): the product runs through
\* Correct, Misplaced, Wrong at every position, the last position fastest.
DigitColor(n) ==
    IF n = 0 THEN "Correct" ELSE IF n = 1 THEN "Misplaced" ELSE "Wrong"

PatternAt(k) ==
    [i \in Positions |-> DigitColor((k \div (3 ^ (WordLen - i))) % 3)]

PatternRange == 0..(MAX_MASK_ENUM - 1)

\* The positions of word2 the inner loop of the initialiser reaches for the
\* word1 at position i, before `if word2 < word1 { break; }` ends it.
InnerReach(words, i) ==
    {j \in 1..Len(words) :
        \A k \in 1..j : ~StrLt(words[k].word, words[i].word)}

MatchKeys(words) ==
    {<< words[ij[1]].word, words[ij[2]].word, PatternAt(k) >> :
        ij \in {p \in (1..Len(words)) \X (1..Len(words)) :
                   p[2] \in InnerReach(words, p[1])},
        k \in PatternRange}

\* The closure of MATCH.get_or_init: `candidate` is the variable of the loop
\* over the remaining words that encloses the call.
BuildMatch(words, candidate) ==
    [key \in MatchKeys(words) |->
        matches([word |-> key[1], mask |-> key[3]], candidate)]

\* `let key = if word < candidate {..} else {..};`
MatchKey(word, candidate, pattern) ==
    IF StrLt(word, candidate) THEN << word, candidate, pattern >>
    ELSE << candidate, word, pattern >>

\* `matches.get(&key).copied().unwrap_or_else(|| g.matches(candidate))`
MatchGet(table, word, candidate, pattern) ==
    IF MatchKey(word, candidate, pattern) \in DOMAIN table
    THEN table[MatchKey(word, candidate, pattern)]
    ELSE matches([word |-> word, mask |-> pattern], candidate)

\* in_pattern_total once the loop over the remaining words has passed the
\* first k of them.
RECURSIVE InPatternTotal(_, _, _, _, _)
InPatternTotal(table, rem, word, pattern, k) ==
    IF k = 0 THEN 0
    ELSE InPatternTotal(table, rem, word, pattern, k - 1)
         + (IF MatchGet(table, word, rem[k].word, pattern)
            THEN rem[k].count ELSE 0)

\* goodness = -sum, times remaining_count times Scale; patterns without
\* candidates are skipped.
PrecalcGoodness(table, rem, word, remaining_count) ==
    EInfoNum([k \in PatternRange |->
                 InPatternTotal(table, rem, word, PatternAt(k), Len(rem))],
             remaining_count)

\* best once the loop over the remaining words has passed the first k.
RECURSIVE PrecalcBest(_, _, _, _)
PrecalcBest(table, rem, remaining_count, k) ==
    IF k = 0 THEN None
    ELSE NewBest(PrecalcBest(table, rem, remaining_count, k - 1),
                 [word |-> rem[k].word,
                  goodness |-> PrecalcGoodness(table, rem, rem[k].word,
                                               remaining_count)])

\* The pairs the call looked up and found in the table, each with the
\* patterns the table holds true for it.
MatchHits(table, rem) ==
    {[word |-> rem[wc[1]].word, candidate |-> rem[wc[2]].word,
      stored |-> {k \in PatternRange :
                     table[MatchKey(rem[wc[1]].word, rem[wc[2]].word,
                                    PatternAt(k))]}] :
        wc \in {p \in (1..Len(rem)) \X (1..Len(rem)) :
                   MatchKey(rem[p[1]].word, rem[p[2]].word, PatternAt(0))
                       \in DOMAIN table}}

PrecalcResult(panic, word, rem, c, match, hits) ==
    [panic |-> panic, word |-> word, remaining |-> rem, cow |-> c,
     entropy |-> << >>, last_guess_idx |-> None, cache |-> None,
     scored |-> << >>, goodnesses |-> << >>, match |-> match, hits |-> hits]

\* The scoring part of Precalc::guess over the table the first lookup finds
\* or builds; `best.unwrap()` cannot fail here.
PrecalcScore(table, rem, match) ==
    PrecalcResult(FALSE,
                  Some(PrecalcBest(table, rem, SumCounts(rem, Len(rem)),
                                   Len(rem))[1].word),
                  rem, "Owned", Some(table), MatchHits(table, rem))

\* Precalc::guess for the Precalc holding the list pre under the Cow c, with
\* the statics MATCH = match and INITIAL = initial.
PrecalcGuess(pre, c, match, initial, hist) ==
    IF hist = << >>
    THEN PrecalcResult(FALSE, Some(tares), pre, c, match, {})
    ELSE LET rem == SelectSeq(pre, LAMBDA e : matches(hist[Len(hist)], e.word))
         IN  IF rem = << >>
             THEN PrecalcResult(TRUE, None, rem, "Owned", match, {})
             ELSE IF match # None THEN PrecalcScore(match[1], rem, match)
             ELSE IF Len(initial) < MatchLen
             THEN PrecalcResult(TRUE, None, rem, "Owned", match, {})
             ELSE Only({PrecalcScore(table, rem, match) :
                          table \in {BuildMatch(SubSeq(initial, 1, MatchLen),
                                                rem[1].word)}})

\* play() of main.rs with Precalc::new as the guesser: new() borrows INITIAL,
\* a copy of DICTIONARY.
InitPrecalc ==
    /\ t_answer = tares /\ t_guess = tares /\ t_mask = None /\ t_accept = None
    /\ t_result = None
    /\ guesser = None
    /\ MATCH = None
    /\ lookups = {}
    /\ dict = SubSeq(DICTIONARY, 1, DictLen)
    /\ statics = Some(SubSeq(DICTIONARY, 1, DictLen))
    /\ options = [sigmoid |-> FALSE, rank_by |-> "ExpectedInformation",
                  cache |-> FALSE, cutoff |-> FALSE, hard_mode |-> TRUE]
    /\ remaining = SubSeq(DICTIONARY, 1, DictLen)
    /\ cow = "Borrowed"
    /\ entropy = << >>
    /\ last_guess_idx = None
    /\ COMPUTES = None
    /\ history = << >>
    /\ answer \in {Some(w) : w \in Answers(SubSeq(DICTIONARY, 1, DictLen))}
    /\ mode = "precalc"
    /\ outcome = Pending
    /\ last_word = None
    /\ scored = << >>
    /\ goodnesses = << >>
    /\ calls = 0
    /\ games = 1
    /\ twin = None

PrecalcGuessed(r) ==
    /\ PlayIteration(Len(history) + 1, r)
    /\ MATCH' = r.match
    /\ lookups' = r.hits

PrecalcTurn ==
    /\ mode = "precalc"
    /\ outcome = Pending
    /\ \E r \in {PrecalcGuess(remaining, cow, MATCH, statics[1], history)} :
          PrecalcGuessed(r)
    /\ UNCHANGED << t_answer, t_guess, t_mask, t_accept, t_result, guesser,
                    dict, options, answer, mode, games, twin >>

\* The next answer of play() in main.rs: a new Precalc, the statics as they
\* are.
PrecalcNewGame ==
    /\ mode = "precalc"
    /\ outcome[1] \in {"Some", "None"}
    /\ games < MaxGames
    /\ remaining' = statics[1]
    /\ cow' = "Borrowed"
    /\ \E w \in Answers(dict) : answer' = Some(w)
    /\ history' = << >>
    /\ outcome' = Pending
    /\ last_word' = None
    /\ lookups' = {}
    /\ calls' = 0
    /\ games' = games + 1
    /\ UNCHANGED << t_answer, t_guess, t_mask, t_accept, t_result, guesser,
                    MATCH, dict, statics, options, entropy, last_guess_idx,
                    COMPUTES, mode, scored, goodnesses, twin >>

NextPrecalc == PrecalcTurn \/ PrecalcNewGame

SpecPrecalc == InitPrecalc /\ [][NextPrecalc]_vars

\* ------------------------------------------- the pure functions, on their own
Words == [Positions -> 0..(AlphaSize - 1)]

SolverIdle ==
    /\ dict = << >>
    /\ statics = None
    /\ options = [sigmoid |-> TRUE, rank_by |-> "ExpectedScore", cache |-> TRUE,
                  cutoff |-> TRUE, hard_mode |-> TRUE]
    /\ remaining = << >>
    /\ cow = "Borrowed"
    /\ entropy = << >>
    /\ last_guess_idx = None
    /\ COMPUTES = None
    /\ history = << >>
    /\ answer = None
    /\ mode = "test"
    /\ outcome = << "test" >>
    /\ last_word = None
    /\ scored = << >>
    /\ goodnesses = << >>
    /\ calls = 0
    /\ games = 0
    /\ twin = None

InitCompute ==
    /\ t_answer \in Words
    /\ t_guess \in Words
    /\ t_mask = None
    /\ t_accept = None
    /\ t_result = None
    /\ guesser = None
    /\ MATCH = None
    /\ lookups = {}
    /\ SolverIdle

\* Correctness::compute(t_answer, t_guess)
DoCompute ==
    /\ mode = "test"
    /\ t_mask = None
    /\ t_mask' = Some(compute(t_answer, t_guess))
    /\ UNCHANGED << t_answer, t_guess, t_accept, t_result, guesser, MATCH, lookups, svars >>

\* Guess { word: t_guess, mask }.matches(t_answer) for every mask of
\* Correctness::patterns(), as the loop of Weight::guess calls it.
DoMatches ==
    /\ mode = "test"
    /\ t_mask # None
    /\ t_accept = None
    /\ t_accept' = Some({m \in patterns :
                            matches([word |-> t_guess, mask |-> m], t_answer)})
    /\ UNCHANGED << t_answer, t_guess, t_mask, t_result, guesser, MATCH, lookups, svars >>

NextCompute == DoCompute \/ DoMatches

SpecCompute == InitCompute /\ [][NextCompute]_vars

\* ------------------------------------------ Correctness::pack, on its own
InitPack ==
    /\ t_answer = tares
    /\ t_guess = tares
    /\ t_mask \in {Some(m) : m \in patterns}
    /\ t_accept = None
    /\ t_result = None
    /\ guesser = None
    /\ MATCH = None
    /\ lookups = {}
    /\ SolverIdle

\* Correctness::pack(&t_mask)
DoPack ==
    /\ mode = "test"
    /\ t_mask # None
    /\ t_result = None
    /\ t_result' = Some([value |-> pack(t_mask[1]),
                         accs |-> PackAccs(t_mask[1], 0, 1)])
    /\ UNCHANGED << t_answer, t_guess, t_mask, t_accept, guesser, MATCH, lookups, svars >>

NextPack == DoPack

SpecPack == InitPack /\ [][NextPack]_vars

\* --------------------------- compute and matches on arbitrary strings
\* A &str as the sequence of its bytes, each byte as its offset from b'a':
\* the lowercase letters are the offsets 0..25.
UpperA == 0 - 32
OpenBrace == 26
StrBytes == {0, 1, UpperA, OpenBrace}

\* Strings of five bytes that vary in their leading positions, a string of
\* four bytes and a string of six.
StrWords ==
    {[i \in Positions |-> IF i <= StrVary THEN v[i] ELSE tares[i]] :
        v \in [1..StrVary -> StrBytes]}
    \cup {SubSeq(tares, 1, WordLen - 1), Append(tares, 18)}

\* `misplaced[(b - b'a') as usize]` for a byte outside a..z: the subtraction
\* overflows (a panic with overflow checks) and wraps to 159..255 without
\* them, and a byte above b'z' gives 26..158: the index is out of bounds of
\* the 26 counters whatever the build.
IndexPanics(b) == b \notin Letters

Aborted == [abort |-> TRUE, value |-> None]
Returned(v) == [abort |-> FALSE, value |-> Some(v)]

\* Correctness::compute with its assertions and its indexing: the first loop
\* indexes by the answer's byte where the two bytes differ, the second by the
\* guess's byte where the position is still Wrong.
compute_str(ans, gss) ==
    IF Len(ans) # WordLen \/ Len(gss) # WordLen THEN Aborted
    ELSE IF \E i \in Positions : ans[i] # gss[i] /\ IndexPanics(ans[i])
    THEN Aborted
    ELSE IF \E i \in Positions : ans[i] # gss[i] /\ IndexPanics(gss[i])
    THEN Aborted
    ELSE Returned(compute(ans, gss))

\* Guess::matches with its assertions; it compares bytes and indexes
\* nothing by them.
matches_str(g, word) ==
    IF Len(word) # WordLen \/ Len(g.word) # WordLen THEN Aborted
    ELSE Returned(matches(g, word))

StrMasks == {AllCorrect, [i \in Positions |-> "Wrong"]}

InitStr ==
    /\ t_answer \in StrWords
    /\ t_guess \in StrWords
    /\ t_mask = None
    /\ t_accept = None
    /\ t_result = None
    /\ guesser = None
    /\ MATCH = None
    /\ lookups = {}
    /\ SolverIdle

\* Correctness::compute(t_answer, t_guess)
DoComputeStr ==
    /\ mode = "test"
    /\ t_result = None
    /\ t_result' = Some(compute_str(t_answer, t_guess))
    /\ UNCHANGED << t_answer, t_guess, t_mask, t_accept, guesser, MATCH, lookups, svars >>

\* Guess { word: t_guess, mask }.matches(t_answer)
DoMatchesStr ==
    /\ mode = "test"
    /\ t_result = None
    /\ \E m \in StrMasks :
          /\ t_mask' = Some(m)
          /\ t_result' = Some(matches_str([word |-> t_guess, mask |-> m], t_answer))
    /\ UNCHANGED << t_answer, t_guess, t_accept, guesser, MATCH, lookups, svars >>

NextStr == DoComputeStr \/ DoMatchesStr

SpecStr == InitStr /\ [][NextStr]_vars

\* ===================================================================
\* Properties of Correctness::compute and Guess::matches (SpecCompute)
\* ===================================================================
Occurrences(x, word) == Cardinality({i \in Positions : word[i] = x})
Marked(x, word, mask, kinds) ==
    Cardinality({i \in Positions : word[i] = x /\ mask[i] \in kinds})
MinOf(a, b) == IF a < b THEN a ELSE b

\* C1: for every answer, guess and mask, compute(answer, guess) is the mask
\* exactly when the Guess of that word and mask matches the answer.
C1_Symmetry ==
    (t_mask # None /\ t_accept # None)
        => \A m \in patterns : (t_mask[1] = m) <=> (m \in t_accept[1])

\* A pair whose feedback holds all three colours, checked by matches.
C1_Witness ==
    /\ t_mask # None
    /\ t_accept # None
    /\ {t_mask[1][i] : i \in Positions} = Correctness
    /\ t_mask[1] \in t_accept[1]

\* C2: per letter, the positions of the guess marked Correct or Misplaced
\* number min(occurrences in the guess, occurrences in the answer).
C2_LetterCount ==
    t_mask # None
        => \A x \in Letters :
              Marked(x, t_guess, t_mask[1], {"Correct", "Misplaced"})
                  = MinOf(Occurrences(x, t_guess), Occurrences(x, t_answer))

\* A guess with more of a letter than the answer has: one occurrence is
\* Misplaced, the surplus Wrong.
C2_Witness ==
    /\ t_mask # None
    /\ \E x \in Letters :
          /\ Occurrences(x, t_answer) > 0
          /\ Occurrences(x, t_guess) > Occurrences(x, t_answer)
          /\ Marked(x, t_guess, t_mask[1], {"Misplaced"}) > 0
          /\ Marked(x, t_guess, t_mask[1], {"Wrong"}) > 0

\* C3: position i is Correct exactly when the letters agree there; the
\* Misplaced positions of a letter number at most the answer's occurrences of
\* it outside the Correct positions; a word against itself is all Correct.
C3_CorrectConsumes ==
    t_mask # None
        => /\ \A i \in Positions :
                (t_mask[1][i] = "Correct") <=> (t_answer[i] = t_guess[i])
           /\ \A x \in Letters :
                Marked(x, t_guess, t_mask[1], {"Misplaced"})
                    <= Cardinality({i \in Positions :
                                      t_answer[i] = x /\ t_answer[i] # t_guess[i]})
           /\ (t_answer = t_guess => t_mask[1] = AllCorrect)

\* A letter whose only occurrence in the answer is matched in place, and that
\* the guess holds once more: that other position is Wrong.
C3_Witness ==
    /\ t_mask # None
    /\ \E i, j \in Positions :
          /\ t_guess[i] = t_guess[j]
          /\ t_mask[1][i] = "Correct"
          /\ t_mask[1][j] = "Wrong"
          /\ Occurrences(t_guess[i], t_answer) = 1

\* C4: no Wrong position of a letter lies left of a Misplaced position of the
\* same letter.
C4_LeftmostFirst ==
    t_mask # None
        => \A i, j \in Positions :
              (i < j /\ t_guess[i] = t_guess[j] /\ t_mask[1][j] = "Misplaced")
                  => t_mask[1][i] # "Wrong"

\* A letter with a Misplaced position and, to its right, a Wrong one.
C4_Witness ==
    /\ t_mask # None
    /\ \E i, j \in Positions :
          /\ i < j
          /\ t_guess[i] = t_guess[j]
          /\ t_mask[1][i] = "Misplaced"
          /\ t_mask[1][j] = "Wrong"

\* ===================================================================
\* Properties of Solver::guess under Wordle::play and play_interactive (Spec)
\* ===================================================================
\* The Guesses the calls of guess made so far have filtered by: the call
\* number c was passed the first c - 1 entries of the history.
Processed == SubSeq(history, 1, calls - 1)

Consistent(w, h) == \A j \in 1..Len(h) : compute(w, h[j].word) = h[j].mask

RemainingWords == {remaining[k].word : k \in 1..Len(remaining)}

\* C5: after each call of guess, the remaining list holds exactly the
\* dictionary words whose feedback for every Guess of the history passed so
\* far is that Guess's mask, each once.
C5_ExactlyConsistent ==
    calls > 0
        => /\ RemainingWords = {w \in DictWords(dict) : Consistent(w, Processed)}
           /\ Cardinality(RemainingWords) = Len(remaining)

\* The third call or a later one, with the cache: a word the last Guess
\* alone would keep is ruled out by the first Guess, and words remain.
C5_Witness ==
    /\ calls >= 3
    /\ options.cache
    /\ remaining # << >>
    /\ \E w \in DictWords(dict) :
          /\ Consistent(w, << Processed[Len(Processed)] >>)
          /\ ~Consistent(w, << Processed[1] >>)

\* C6: within one game a call of guess leaves a sub-list of the remaining
\* list it found, so the list never gets longer.
C6_NeverGrows ==
    [][games' = games
          => /\ \A k \in 1..Len(remaining') :
                   \E j \in 1..Len(remaining) : remaining[j] = remaining'[k]
             /\ Len(remaining') <= Len(remaining)]_vars

\* A call after the first that found several candidates and removed some but
\* not all of them.
C6_Witness ==
    /\ calls >= 3
    /\ remaining # << >>
    /\ \E w \in DictWords(dict) :
          /\ Consistent(w, SubSeq(Processed, 1, Len(Processed) - 1))
          /\ ~Consistent(w, Processed)

\* `totals.iter().sum()`, over the buckets lo..hi, added up by halves.
RECURSIVE SumTotals(_, _, _)
SumTotals(totals, lo, hi) ==
    IF lo = hi THEN totals[lo]
    ELSE SumTotals(totals, lo, (lo + hi) \div 2)
         + SumTotals(totals, (lo + hi) \div 2 + 1, hi)

\* The patterns whose Guess of `word` matches the candidate: the patterns of
\* the loop of Weight::guess for which `g.matches(candidate)` holds.
MatchingPatterns(word, candidate) ==
    {P \in patterns : matches([word |-> word, mask |-> P], candidate)}

\* `in_pattern_total` of Weight::guess for the pattern packed as b: the
\* weight of the first k candidates it matches; packed[c] holds the packed
\* patterns that match the candidate c.
RECURSIVE in_pattern_total(_, _, _, _)
in_pattern_total(b, rem, packed, k) ==
    IF k = 0 THEN 0
    ELSE (IF b \in packed[k] THEN rem[k].weight ELSE 0)
         + in_pattern_total(b, rem, packed, k - 1)

\* Every bucket holds the in_pattern_total of its pattern: `used` are the
\* buckets of the patterns that match a candidate, the others hold nothing.
BucketsHold(rem, totals, packed, used) ==
    /\ \A b \in used : totals[b] = in_pattern_total(b, rem, packed, Len(rem))
    /\ \A b \in (0..(MAX_MASK_ENUM - 1)) \ used : totals[b] = 0

ConservedBy(rem, totals, mp) ==
    /\ SumTotals(totals, 0, MAX_MASK_ENUM - 1) = SumWeights(rem, Len(rem))
    /\ \A c \in 1..Len(rem) : Cardinality(mp[c]) = 1
    /\ \A packed \in {[c \in 1..Len(rem) |->
                          {PackedCorrectness_from(P) : P \in mp[c]}]} :
          BucketsHold(rem, totals, packed,
                      UNION {packed[c] : c \in 1..Len(rem)})

\* What the totals of one guess word owe the remaining list.
Conserved(word, rem, totals) ==
    \A mp \in {[c \in 1..Len(rem) |-> MatchingPatterns(word, rem[c].word)]} :
        ConservedBy(rem, totals, mp)

\* The totals the scoring loop fills for the dictionary word of index idx
\* over the remaining list.
TotalsOf(idx) ==
    TotalsLoop(dict[idx + 1].word, remaining, 1, Len(remaining),
               [totals |-> ZeroTotals,
                row |-> IF options.cache THEN COMPUTES[1][idx] ELSE << >>],
               options.cache).totals

\* C7: for every word a call of guess scored, each remaining candidate is
\* matched by exactly one of the 243 patterns, the bucket of each pattern
\* holds the weight of the candidates it matches, and the buckets add up to
\* the weight of the remaining list.
C7_Conservation ==
    \A k \in 1..Len(scored) :
        \A totals \in {TotalsOf(scored[k])} :
            Conserved(dict[scored[k] + 1].word, remaining, totals)

NonZeroBuckets(totals) == {b \in DOMAIN totals : totals[b] # 0}

\* A scored word that splits at least three candidates over several buckets,
\* fewer buckets than candidates: one bucket holds two candidates.
C7_Witness ==
    /\ Len(remaining) >= 3
    /\ \E k \in 1..Len(scored) :
          \E n \in {Cardinality(NonZeroBuckets(TotalsOf(scored[k])))} :
              n >= 2 /\ n < Len(remaining)

\* C8: the first call of guess of a game, the one with the empty history,
\* returns "tares" whatever the options are, scores no word and leaves the
\* remaining list as build made it.
C8_FixedOpening ==
    calls = 1
        => /\ last_word = Some(tares)
           /\ scored = << >>
           /\ entropy = << >>
           /\ remaining = Initial(dict, options)
           /\ cow = "Borrowed"

\* The first call of the second game of a thread, in easy mode with the
\* cache the first game filled, under a rank other than the default.
C8_Witness ==
    /\ calls = 1
    /\ games = 2
    /\ last_word = Some(tares)
    /\ options.cache
    /\ ~options.hard_mode
    /\ options.rank_by = "ExpectedInformation"
    /\ \E g \in DOMAIN COMPUTES[1] : \E a \in DOMAIN COMPUTES[1][g] :
          COMPUTES[1][g][a] # None

\* C9: in hard mode the word guess returns is a word of the remaining list
\* as the call leaves it.
C9_HardModeInRemaining ==
    (options.hard_mode /\ last_word # None) => last_word[1] \in RemainingWords

\* A hard-mode call that scored several candidates of a list two Guesses
\* have trimmed, and returned one of them.
C9_Witness ==
    /\ options.hard_mode
    /\ calls >= 3
    /\ Len(scored) >= 2
    /\ Len(remaining) < Len(dict)
    /\ last_word # None
    /\ last_word[1] \in RemainingWords

\* ===================================================================
\* Properties of the cutoff (SpecCutoff)
\* ===================================================================
\* The indices of the remaining list, in its order.
RemIdx == [k \in 1..Len(remaining) |-> remaining[k].idx]

\* min(max(floor(n / 3), 20), n) for the n candidates of the remaining list.
PrefixLen ==
    LET n == Len(remaining)
        third == n \div 3
        floor == IF third > 20 THEN third ELSE 20
    IN  IF floor < n THEN floor ELSE n

ScoredInRemaining == SelectSeq(scored, LAMBDA x : InRemaining(remaining, x))

\* C10, as stated: with the cutoff, every word a call scores is one of the
\* first min(max(floor(n / 3), 20), n) candidates of the remaining list, in
\* hard mode and in easy mode.
C10_OnlyRemainingPrefix ==
    (options.cutoff /\ scored # << >>)
        => \A k \in 1..Len(scored) :
              \E j \in 1..PrefixLen : scored[k] = RemIdx[j]

\* C10, amended: with the cutoff, the remaining candidates a call scores are
\* the first min(max(floor(n / 3), 20), n) of the remaining list, in order.
\* In hard mode nothing else is scored; in easy mode the call scores every
\* dictionary word up to the last candidate of that prefix, words outside the
\* remaining list included.
C10_CutoffPrefix ==
    (options.cutoff /\ scored # << >>)
        => /\ ScoredInRemaining = SubSeq(RemIdx, 1, PrefixLen)
           /\ options.hard_mode => scored = SubSeq(RemIdx, 1, PrefixLen)
           /\ ~options.hard_mode
                 => scored = [j \in 1..(RemIdx[PrefixLen] + 1) |-> j - 1]

\* An easy-mode call with more than 60 candidates left: a third of them are
\* scored, and with them dictionary words that are not candidates.
C10_Witness ==
    /\ options.cutoff
    /\ ~options.hard_mode
    /\ Len(remaining) > 60
    /\ PrefixLen = Len(remaining) \div 3
    /\ Len(scored) > PrefixLen
    /\ Len(ScoredInRemaining) = PrefixLen

\* ===================================================================
\* Properties of the choice of the best candidate (Spec)
\* ===================================================================
\* C11: the word a scoring call returns is a scored candidate of the
\* greatest goodness, and of the lowest dictionary index among the scored
\* candidates of that goodness.
C11_LowestIndexOnTie ==
    (scored # << >> /\ last_word # None)
        => \E k \in 1..Len(scored) :
              /\ last_guess_idx = Some(scored[k])
              /\ last_word = Some(dict[scored[k] + 1].word)
              /\ \A j \in 1..Len(scored) :
                    /\ goodnesses[j] <= goodnesses[k]
                    /\ goodnesses[j] = goodnesses[k] => scored[k] <= scored[j]

\* A call that scored two candidates of the same, greatest goodness and
\* returned the one of lower index.
C11_Witness ==
    /\ last_word # None
    /\ \E k, j \in 1..Len(scored) :
          /\ scored[k] < scored[j]
          /\ goodnesses[j] = goodnesses[k]
          /\ \A m \in 1..Len(scored) : goodnesses[m] <= goodnesses[k]
          /\ last_guess_idx = Some(scored[k])

\* C12: a call with a non-empty history that finds the rank First, or one
\* candidate left after its filter, returns the first entry of the remaining
\* list, the one of lowest index and greatest weight, and scores nothing.
C12_FastPath ==
    (calls >= 2 /\ last_word # None
        /\ (options.rank_by = "First" \/ Len(remaining) = 1))
        => /\ last_word = Some(remaining[1].word)
           /\ last_guess_idx = Some(remaining[1].idx)
           /\ scored = << >>
           /\ goodnesses = << >>
           /\ Len(entropy) = 0 \/ options.rank_by # "First"
           /\ \A k \in 1..Len(remaining) :
                 /\ remaining[1].idx <= remaining[k].idx
                 /\ remaining[1].weight >= remaining[k].weight

\* A call under a scoring rank whose filter left one candidate of several,
\* which it returned.
C12_Witness ==
    /\ calls >= 3
    /\ options.rank_by # "First"
    /\ Len(remaining) = 1
    /\ Len(entropy) >= 1
    /\ last_word = Some(remaining[1].word)
    /\ scored = << >>

\* C13: a call whose filter leaves no candidate panics: it returns no word,
\* whatever the rank and the other options, and the game ends there.
C13_EmptyAborts ==
    (calls >= 2 /\ remaining = << >>)
        => /\ last_word = None
           /\ outcome = << "panic" >>
           /\ scored = << >>

\* A game of play for an answer outside the dictionary, under a scoring
\* rank: the feedback of the first guess rules out every word.
C13_Witness ==
    /\ mode = "play"
    /\ answer = Some(OutsideWord)
    /\ options.rank_by = "ExpectedScore"
    /\ calls = 2
    /\ remaining = << >>
    /\ outcome = << "panic" >>

\* ===================================================================
\* Properties of two Solvers called with the same histories (SpecClient)
\* ===================================================================
\* C14: a Solver with the cache and a Solver without it, built from options
\* that agree otherwise and called with the same histories, end each call
\* with the same remaining list and the same word (or both panic).
C14_CacheEquivalent ==
    (twin # None /\ options.cache /\ ~twin[1].options.cache
        /\ twin[1].calls = calls)
        => /\ twin[1].remaining = remaining
           /\ twin[1].word = last_word

\* C16: two Solvers built from the same options and called with the same
\* histories return the same word at every call, whatever thread each runs
\* on and whatever earlier games left in the cache of that thread.
C16_SameGuesses ==
    (twin # None /\ twin[1].options = options /\ twin[1].calls = calls)
        => twin[1].word = last_word

\* ===================================================================
\* Properties of the thread's cache across games (Spec)
\* ===================================================================
\* The cells of a table that hold a value.
Populated(cache) ==
    {rc \in (DOMAIN cache[1]) \X (DOMAIN cache[1]) : cache[1][rc[1]][rc[2]] # None}

\* C15: once the thread has its table it keeps it, and a cell that holds a
\* value holds the same value after every step: cells are never overwritten
\* and never cleared, within a game and from one game to the next.
C15_CellsWriteOnce ==
    [][COMPUTES # None
          => /\ COMPUTES' # None
             /\ \A rc \in Populated(COMPUTES) :
                   COMPUTES'[1][rc[1]][rc[2]] = COMPUTES[1][rc[1]][rc[2]]]_vars

\* A later game on the thread has called guess, past a table that the
\* earlier game left with values in it.
C15_Witness ==
    /\ games >= 2
    /\ calls >= 2
    /\ COMPUTES # None
    /\ Cardinality(Populated(COMPUTES)) >= Len(dict)

\* ===================================================================
\* Properties of Wordle::play (SpecGame)
\* ===================================================================
\* The word the closure g returns at its i-th call by play.
NthGuess(g, i) == IF i - 1 = g.when THEN g.right ELSE g.wrong

\* The calls at which g returns the answer, and those at which it returns a
\* word play rejects.
Hits(g) == {i \in 1..MaxTurns : NthGuess(g, i) = answer[1]}
Rejected(g) ==
    {i \in 1..MaxTurns :
        NthGuess(g, i) # answer[1] /\ NthGuess(g, i) \notin DictWords(dict)}

\* What play has done by now, for the guesser g.
PlayReturns(g, hits, rejected) ==
    /\ \A i \in 1..Len(history) :
          /\ history[i].word = NthGuess(g, i)
          /\ history[i].word # answer[1]
          /\ history[i].mask = compute(answer[1], history[i].word)
    /\ outcome = Pending => calls = Len(history) /\ calls < MaxTurns
    /\ outcome[1] = "Some"
          => /\ outcome[2] = calls
             /\ calls <= MaxTurns
             /\ Len(history) = calls - 1
             /\ last_word = answer
    /\ outcome[1] = "None"
          => /\ calls = MaxTurns
             /\ Len(history) = MaxTurns
             /\ last_word # answer
    /\ (outcome # Pending /\ hits # {} /\ \A j \in rejected : j > Min(hits))
          => outcome = << "Some", Min(hits) >>
    /\ (outcome # Pending /\ hits = {} /\ rejected = {})
          => outcome = << "None" >>

\* C17: play returns Some(k) exactly when the k-th guess is the first that
\* equals the answer, with k at most 32; guess has then been called k times,
\* each time with the guesses made before it and their feedback. It returns
\* None after exactly 32 guesses, none of them the answer.
C17_PlayReturns ==
    guesser # None => PlayReturns(guesser[1], Hits(guesser[1]), Rejected(guesser[1]))

\* A game won at the last guess allowed, after 31 wrong ones.
C17_Witness ==
    /\ guesser # None
    /\ outcome = << "Some", MaxTurns >>
    /\ Len(history) = MaxTurns - 1
    /\ history[1].word # answer[1]

\* A game lost: 32 guesses, none the answer.
C17_WitnessNone ==
    /\ guesser # None
    /\ outcome = << "None" >>
    /\ calls = MaxTurns

\* ===================================================================
\* Properties of Correctness::pack (SpecPack)
\* ===================================================================
\* C18: pack maps the 243 patterns one to one onto 0..242: no other pattern
\* has the packed value of this one, the value is below MAX_MASK_ENUM, every
\* number below MAX_MASK_ENUM is the packed value of a pattern, and no step
\* of the fold computes a value a u8 cannot hold.
C18_PackInjective ==
    t_result # None
        => /\ Cardinality(patterns) = MAX_MASK_ENUM
           /\ t_result[1].value \in 0..(MAX_MASK_ENUM - 1)
           /\ \A m \in patterns : pack(m) = t_result[1].value => m = t_mask[1]
           /\ {pack(m) : m \in patterns} = 0..(MAX_MASK_ENUM - 1)
           /\ \A i \in 1..Len(t_result[1].accs) : t_result[1].accs[i] < U8

\* The pattern of five Wrong is packed to the greatest value, 242.
C18_Witness ==
    /\ t_result # None
    /\ t_mask = Some([i \in Positions |-> "Wrong"])
    /\ t_result[1].value = MAX_MASK_ENUM - 1
    /\ Len(t_result[1].accs) = WordLen

\* ===================================================================
\* Properties of the lists two Solvers hold (SpecClient)
\* ===================================================================
MainHeld == Held(cow, remaining)
TwinHeld == Held(twin[1].cow, twin[1].remaining)

\* rem holds entries of the list `from`, in the order of `from`.
SurvivorsOf(rem, from) ==
    /\ \A k \in 1..Len(rem) : rem[k] = from[rem[k].idx + 1]
    /\ \A k \in 1..(Len(rem) - 1) : rem[k].idx < rem[k + 1].idx

\* C19: no step changes the shared initial list, and while a game lasts a
\* step that changes the list one Solver holds leaves the list the other
\* holds alone.  A Solver that borrows the shared list and filters ends up
\* owning a list of the survivors; a Solver that owns its list keeps
\* owning it, and a filter only removes entries from that list.
C19_TrimFrame ==
    [][/\ statics' = statics
       /\ games' = games
             => /\ MainHeld' # MainHeld => TwinHeld' = TwinHeld
                /\ TwinHeld' # TwinHeld => MainHeld' = MainHeld
                /\ (cow = "Borrowed" /\ cow' = "Owned")
                      => SurvivorsOf(remaining', statics[1])
                /\ cow = "Owned"
                      => cow' = "Owned" /\ SurvivorsOf(remaining', statics[1])
                         /\ \A k \in 1..Len(remaining') :
                               \E j \in 1..Len(remaining) :
                                   remaining[j] = remaining'[k]]_vars

\* The Solver has filtered twice and owns a shorter list, while the twin,
\* one call behind, has filtered once; the shared list is whole.
C19_Witness ==
    /\ twin # None
    /\ cow = "Owned"
    /\ calls = 3
    /\ twin[1].calls = 2
    /\ twin[1].cow = "Owned"
    /\ Len(remaining) > 0
    /\ Len(remaining) < Len(twin[1].remaining)
    /\ statics = Some(Initial(dict, options))

\* The Solver has filtered once and owns its list, while the twin still
\* borrows the shared one.
C19_WitnessBorrowed ==
    /\ twin # None
    /\ cow = "Owned"
    /\ twin[1].cow = "Borrowed"
    /\ Len(remaining) < Len(TwinHeld)
    /\ TwinHeld = Initial(dict, options)

\* ===================================================================
\* Properties of compute and matches on arbitrary strings (SpecStr)
\* ===================================================================
\* Exactly five lowercase ASCII letters.
WellFormed(w) == Len(w) = WordLen /\ \A i \in 1..Len(w) : w[i] \in Letters

\* C20: compute and matches abort, and return nothing, whenever the answer
\* or the guess is not exactly five lowercase ASCII letters.
C20_AbortsOnInvalid ==
    (t_result # None /\ (~WellFormed(t_answer) \/ ~WellFormed(t_guess)))
        => t_result[1].abort

\* ===================================================================
\* Properties of the validation of guesses by Wordle::play (SpecGame)
\* ===================================================================
\* C21: play aborts whenever the guesser returns a word that is not in the
\* dictionary: after such a guess the game has no result, Some or None.
C21_RejectsNonMember ==
    (guesser # None /\ last_word # None /\ last_word[1] \notin DictWords(dict))
        => outcome = << "panic" >>

\* ===================================================================
\* Properties of the interactive front end (SpecFront)
\* ===================================================================
\* What a line holds once whitespace is removed and letters upper-cased.
Stripped(line) ==
    LET kept == SelectSeq(line, LAMBDA ch : ~is_whitespace(ch))
    IN  [i \in 1..Len(kept) |-> to_ascii_uppercase(kept[i])]

\* Exactly five characters, each of C, M or W.
IsMaskLine(line) ==
    /\ Len(Stripped(line)) = WordLen
    /\ \A i \in 1..Len(Stripped(line)) : Stripped(line)[i] \in {"C", "M", "W"}

\* C22: a mask reaches the history, and the guesser, only from a line that
\* is five characters of C, M or W once whitespace is removed and letters
\* are upper-cased; any other line gets an error message and a new prompt,
\* leaves the history as it was and does not abort the program.
C22_OnlyMasksPass ==
    t_result # None
        => /\ t_result[1].asked.kind = "Ok" => IsMaskLine(t_result[1].line)
           /\ ~IsMaskLine(t_result[1].line)
                 => /\ t_result[1].asked.kind = "Err"
                    /\ t_result[1].asked.message # ""
                    /\ Len(history) = t_result[1].before
                    /\ outcome = Pending

\* ===================================================================
\* Further properties of Solver::guess in games (Spec)
\* ===================================================================
\* C23: after every call of guess that returned, last_guess_idx is the
\* dictionary index of the word it returned, whether the opening word, the
\* word of the fast path or the best-scored word.
C23_IdxOfReturned ==
    last_word # None
        => /\ last_guess_idx # None
           /\ last_guess_idx[1] \in 0..(Len(dict) - 1)
           /\ dict[last_guess_idx[1] + 1].word = last_word[1]

\* A scoring call returned a word other than the opening word and than the
\* first candidate.
C23_Witness ==
    /\ calls >= 2
    /\ scored # << >>
    /\ last_word # None
    /\ last_word[1] # tares
    /\ last_word[1] # remaining[1].word
    /\ last_guess_idx # None
    /\ dict[last_guess_idx[1] + 1].word = last_word[1]

\* ===================================================================
\* Properties of the contents of the cache (SpecClient)
\* ===================================================================
\* C24: whatever histories guess was called with, every cell of the cache
\* that holds a value holds, at (g, a), the packed feedback of the guess
\* word g against the answer word a, as compute gives it.
C24_CellsAreCompute ==
    COMPUTES # None
        => \A rc \in Populated(COMPUTES) :
              COMPUTES[1][rc[1]][rc[2]][1]
                  = PackedCorrectness_from(compute(dict[rc[2] + 1].word,
                                                   dict[rc[1] + 1].word))

\* C25: when play drives the Solver for an answer of the dictionary, the
\* answer is in the remaining list after every call of guess; the list is
\* never empty and no call panics.
C25_AnswerRemains ==
    (mode = "play" /\ calls >= 1 /\ answer[1] \in DictWords(dict))
        => /\ answer[1] \in RemainingWords
           /\ remaining # << >>
           /\ last_word # None
           /\ outcome # << "panic" >>

\* The third call of a game for a dictionary answer left several candidates,
\* fewer than the dictionary holds, the answer among them.
C25_Witness ==
    /\ mode = "play"
    /\ calls >= 3
    /\ answer[1] \in DictWords(dict)
    /\ answer[1] \in RemainingWords
    /\ Len(remaining) >= 2
    /\ Len(remaining) < Len(dict)

\* ===================================================================
\* Properties of hard-mode games (SpecHard)
\* ===================================================================
\* A call of guess of a running hard-mode game, after a guess that was not
\* the answer.
LaterCall ==
    /\ mode = "play"
    /\ options.hard_mode
    /\ outcome = Pending
    /\ calls >= 1
    /\ calls' = calls + 1

\* C26: in a hard-mode game for a dictionary answer every call of guess after
\* a wrong guess leaves a strictly shorter remaining list, the game goes on
\* to return the answer, and it does so within as many guesses as the
\* dictionary has words.
C26_HardModeFinds ==
    /\ [][LaterCall => Len(remaining') < Len(remaining)]_vars
    /\ [](outcome[1] \in {"Some", "pending"})
    /\ [](outcome[1] = "Some" => outcome[2] <= Len(dict) /\ last_word = answer)
    /\ (outcome = Pending) ~> (outcome[1] = "Some")

\* A hard-mode game won at the third guess or later, the list two entries
\* shorter than the dictionary at least.
C26_Witness ==
    /\ mode = "play"
    /\ options.hard_mode
    /\ outcome[1] = "Some"
    /\ outcome[2] >= 3
    /\ last_word = answer
    /\ Len(remaining) <= Len(dict) - 2

\* C27: in hard mode a Solver never returns the same word twice in one
\* game.  The words the game has recorded so far are pairwise different, and
\* the word the last call returned is none of the words recorded before it.
C27_NeverRepeats ==
    (options.hard_mode /\ mode \in {"play", "interactive"}) =>
        /\ \A i, j \in 1..Len(history) :
               i < j => history[i].word # history[j].word
        /\ last_word # None =>
               \A i \in 1..Len(history) :
                   history[i].word = last_word[1] => i = Len(history)

\* A hard-mode game whose fourth call returned after three guesses that were
\* not the answer.
C27_Witness ==
    /\ options.hard_mode
    /\ mode \in {"play", "interactive"}
    /\ Len(history) >= 3
    /\ calls >= 4
    /\ last_word # None
    /\ last_word[1] # history[Len(history)].word

\* C28: the remaining list is always a subsequence of the initial list of
\* the Solver's options: every entry is the entry of the initial list at its
\* index, word, weight and index alike, the indices strictly increase along
\* the list, and the weights never increase along it.
C28_Subsequence ==
    /\ SurvivorsOf(remaining, Initial(dict, options))
    /\ \A k \in 1..(Len(remaining) - 1) :
           remaining[k].weight >= remaining[k + 1].weight

\* A list two filters have trimmed, with several survivors that were not
\* neighbours in the initial list and that differ in weight.
C28_Witness ==
    /\ cow = "Owned"
    /\ Len(history) >= 2
    /\ calls >= 3
    /\ Len(remaining) >= 3
    /\ \E k \in 1..(Len(remaining) - 1) :
           /\ remaining[k + 1].idx > remaining[k].idx + 1
           /\ remaining[k].weight > remaining[k + 1].weight

\* C29: whenever a call of guess made through play went on to score words,
\* at least two candidates remained, the call did not panic, and the word
\* it chose as best has a goodness other than zero and spreads the remaining
\* candidates over at least two pattern buckets.
C29_BestSplits ==
    (mode = "play" /\ scored # << >>) =>
        /\ Len(remaining) >= 2
        /\ outcome # << "panic" >>
        /\ last_word # None
        /\ last_guess_idx # None
        /\ \E k \in 1..Len(scored) :
               scored[k] = last_guess_idx[1] /\ goodnesses[k] # 0
        /\ Cardinality(NonZeroBuckets(TotalsOf(last_guess_idx[1]))) >= 2

\* An easy-mode call that ranked by weighted information and scored a word
\* that is no longer a candidate, whose goodness is zero, before the best.
C29_Witness ==
    /\ mode = "play"
    /\ ~options.hard_mode
    /\ options.rank_by = "WeightedInformation"
    /\ Len(remaining) >= 2
    /\ last_guess_idx # None
    /\ \E k, b \in 1..Len(scored) :
           /\ k < b
           /\ goodnesses[k] = 0
           /\ scored[b] = last_guess_idx[1]
           /\ goodnesses[b] > 0

\* Precalc::guess without the table: every lookup misses.
NoTable == << >>

\* C30: the table of Precalc agrees with Guess::matches on every key it is
\* looked up with: for every pair of word and candidate a call found in the
\* table and every pattern, the table holds true exactly when the Guess of
\* that word and pattern matches the candidate.  So the word a scoring call
\* returns is the word the same loop chooses without the table.
C30_TableAgrees ==
    /\ \A l \in lookups :
          \A k \in PatternRange :
              (k \in l.stored)
                  <=> matches([word |-> l.word, mask |-> PatternAt(k)],
                              l.candidate)
    /\ (mode = "precalc" /\ calls >= 2 /\ last_word # None)
          => last_word[1] = PrecalcBest(NoTable, remaining,
                                        SumCounts(remaining, Len(remaining)),
                                        Len(remaining))[1].word

====
